---- MODULE Spec2Model ----
(***************************************************************************)
(* Verification model of the MDCACHE export layer (mdcache_export.c) and   *)
(* of the admin thread's shutdown sequence (nfs_admin_thread.c).           *)
(*                                                                         *)
(* Part 1 models mdcache_unexport statement by statement, run by one       *)
(* thread per export, concurrently with request workers (lookups that take *)
(* and drop entry references and attach entries to exports) and with the   *)
(* LRU reaper.  mdcache_get, mdcache_put, mdc_remove_export_map,           *)
(* mdcache_lru_cleanup_try_push, the worker and the reaper are not part of *)
(* the files at hand; they follow the design document (sections 4.2, 4.3,  *)
(* 4.5 and 5).                                                             *)
(***************************************************************************)
EXTENDS Integers, Sequences, FiniteSets, TLC

NULL == "NULL"
\* expmap == NULL: no association record.
NO_MAP == <<>>
OK == "OK"
STALE == "STALE"

Entries == {"e1", "e2"}
Exports == {"A", "B"}
Unexporters == {"uA", "uB"}
Workers == {"w1"}
\* Threads that call admin_halt (the DBus shutdown method, a signal handler).
Halters == {"h1", "h2"}
\* Requests the listeners accept at most.
MaxRequests == 2
\* The errno value fridgethr_sync_command reports for an expired wait.
ETIMEDOUT == 110
\* Return codes of the shutdown stages: success, a failure, a timeout.
RcValues == {0, 1, ETIMEDOUT}
Threads == Unexporters \cup Workers

\* The export a thread running mdcache_unexport was called on.
exp_hdl(t) == IF t = "uA" THEN "A" ELSE "B"
\* The thread that runs mdcache_unexport on export x.
UnexporterOf(x) == IF x = "A" THEN "uA" ELSE "uB"

VARIABLES
    entry_list,     \* export -> sequence of entries (exp->entry_list)
    export_list,    \* entry -> sequence of exports (entry->export_list)
    first_export,   \* entry -> export or NULL (entry->first_export)
    refcnt,         \* entry -> reference count
    nref,           \* thread -> entry -> gets not yet matched by a put
    unreachable,    \* entry -> flag: never returned by lookup again
    in_cleanup,     \* entry -> flag: on the cleanup queue
    freed,          \* entry -> the entry's memory has been released
    attr_lock,      \* entry -> [w: writer or NULL, r: set of readers]
    mdc_exp_lock,   \* export -> [w: writer or NULL, r: set of readers]
    lane_lock,      \* owner of the LRU lane mutex, or NULL
    held,           \* thread -> sequence of locks it holds, in acquisition order
    pc,             \* thread -> position in its code
    entry,          \* thread -> local variable entry
    expmap,         \* thread -> local expmap (<<entry, export>> or NO_MAP)
    status,         \* thread -> result of its last mdcache_get
    op_export,      \* worker -> export of its request context
    sub_unexported, \* export -> number of calls of the sub-export's unexport
    \* Part 2: the admin thread (nfs_admin_thread.c).
    admin_shutdown,     \* the shutdown flag
    admin_control_mtx,  \* owner of the mutex protecting it, or NULL
    cv_signalled,       \* admin_control_cv was broadcast while the admin
                        \* thread waited on it
    adm_pc,             \* position of the admin thread
    halt_pc,            \* caller of admin_halt -> its position
    rc,                 \* do_shutdown's local rc
    disorderly,         \* do_shutdown's local disorderly
    calls,              \* the functions do_shutdown has called, in order
    returned,           \* <<stage, rc>>: the return codes the stages reported
    delayed_running,    \* the delayed executor runs
    listeners_running,  \* the request listeners accept requests
    accepted,           \* number of requests the listeners have accepted
    \* Part 3: export operations of the stacking layer (mdcache_export.c).
    op_ctx,         \* the request context: [fsal_export |-> current export]
    stacked,        \* exports for which an MDCACHE export exists
    exp_name,       \* export -> name of its MDCACHE export (exp->name)
    st_pc,          \* position of the thread calling an export operation
    cur,            \* the operation in progress: [op, exp, args]
    saved_export,   \* the context's export when the operation was called
    sub_calls,      \* calls made into the sub-FSAL by the operation
    sub_result,     \* what the sub-FSAL's operation returned
    result,         \* what the operation returned to its caller
    \* Part 4: the admin methods on the bus (nfs_admin_thread.c).
    dbus_calls,     \* the method calls received: [method, args]
    dbus_replies,   \* the replies sent: [success, payload]
    halt_calls,     \* number of calls of admin_halt made by the methods
    grace_reads,    \* number of calls of nfs_in_grace
    grace_starts,   \* the arguments of the calls of nfs4_start_grace
    gid_clears,     \* number of calls of uid2grp_clear_cache
    ng_clears,      \* number of calls of ng_clear_cache
    in_grace,       \* the server is in its grace period
    \* Part 5: the dirent index of one directory (mdcache_avl.h).
    tree,           \* the nodes of the AVL tree: [k, name, deleted]
    reindex,        \* the directory is marked for reindex
    av_result,      \* the last index operation and what it returned
    \* Part 6: the sub-FSAL modules (mdcache_export.c).
    fsal_refcount,  \* FSAL name -> references taken on the module here
    \* Part 7: the dirent comparator on its own (mdcache_avl.h).
    cmp_in,         \* the three dirents handed to the comparator
    cmp_out         \* the comparator's results on them, {} before the calls

cacheVars == <<entry_list, export_list, first_export>>
lruVars == <<refcnt, nref, unreachable, in_cleanup, freed>>
lockVars == <<attr_lock, mdc_exp_lock, lane_lock, held>>
localVars == <<entry, expmap, status, op_export>>
mdcVars == <<cacheVars, lruVars, lockVars, localVars, pc, sub_unexported>>
adminVars == <<admin_shutdown, admin_control_mtx, cv_signalled, adm_pc,
               halt_pc>>
adminVars_but_pc == <<admin_shutdown, admin_control_mtx, cv_signalled,
                      halt_pc>>
shutdownVars == <<rc, disorderly, calls, returned, delayed_running,
                  listeners_running, accepted>>
stackVars == <<op_ctx, stacked, exp_name, st_pc, cur, saved_export,
               sub_calls, sub_result, result>>
dbusVars == <<dbus_calls, dbus_replies, halt_calls, grace_reads,
              grace_starts, gid_clears, ng_clears, in_grace>>
direntVars == <<tree, reindex, av_result>>
fsalVars == <<fsal_refcount>>
cmpVars == <<cmp_in, cmp_out>>
otherVars == <<stackVars, dbusVars, direntVars, fsalVars, cmpVars>>
vars == <<mdcVars, adminVars, shutdownVars, otherVars>>

----------------------------------------------------------------------------
\* Sequences as intrusive lists.

Range(s) == {s[i] : i \in 1..Len(s)}

RECURSIVE Remove(_, _)
Remove(s, v) ==
    IF s = <<>> THEN <<>>
    ELSE IF Head(s) = v THEN Tail(s)
    ELSE <<Head(s)>> \o Remove(Tail(s), v)

\* glist_first_entry: the first element or NULL.
glist_first_entry(s) == IF s = <<>> THEN NULL ELSE Head(s)

NoDup(s) == \A i, j \in 1..Len(s) : i # j => s[i] # s[j]

----------------------------------------------------------------------------
\* Locks.

Unlocked == [w |-> NULL, r |-> {}]
IsFree(l) == l.w = NULL /\ l.r = {}
LaneMutex == [k |-> "lane", o |-> NULL]
AttrLock(e) == [k |-> "attr", o |-> e]
ExpLock(x) == [k |-> "exp", o |-> x]

\* Position of a lock class in the global lock order.
Rank(l) == IF l.k = "lane" THEN 1 ELSE IF l.k = "attr" THEN 2 ELSE 4

Push(t, l) == [held EXCEPT ![t] = Append(@, l)]
Drop(t, l) == [held EXCEPT ![t] = Remove(@, l)]
Holds(t, l) == l \in Range(held[t])

----------------------------------------------------------------------------
\* Initial states: a populated cache.  Every entry is visible through at
\* least one export; both intrusive lists hold the same association records;
\* first_export is the export the entry was attached to first; no thread
\* runs, no lock is held, no reference is outstanding.

SeqsNoDup(S) ==
    {s \in UNION {[1..n -> S] : n \in 0..Cardinality(S)} : NoDup(s)}

\* The admin thread has not started; the service runs.
AdminInit ==
    /\ admin_shutdown = FALSE
    /\ admin_control_mtx = NULL
    /\ cv_signalled = FALSE
    /\ adm_pc = "start"
    /\ halt_pc = [h \in Halters |-> "idle"]
    /\ rc = 0
    /\ disorderly = FALSE
    /\ calls = <<>>
    /\ returned = {}
    /\ delayed_running = TRUE
    /\ listeners_running = TRUE
    /\ accepted = 0

\* The stacking layer before any export is created: no export in the
\* request context.
NO_EXPORT == <<>>
NO_OP == [op |-> "none", exp |-> "none", args |-> <<>>]
NO_RESULT == [op |-> "none", exp |-> "none", value |-> "none"]

StackInit ==
    /\ op_ctx = [fsal_export |-> NO_EXPORT]
    /\ stacked = {}
    /\ exp_name = [x \in Exports |-> ""]
    /\ st_pc = "idle"
    /\ cur = NO_OP
    /\ saved_export = NO_EXPORT
    /\ sub_calls = <<>>
    /\ sub_result = "none"
    /\ result = NO_RESULT

\* No method has been called on the bus.
DbusInit ==
    /\ dbus_calls = <<>>
    /\ dbus_replies = <<>>
    /\ halt_calls = 0
    /\ grace_reads = 0
    /\ grace_starts = <<>>
    /\ gid_clears = 0
    /\ ng_clears = 0
    /\ in_grace = FALSE

\* mdcache_avl_init: an empty tree.
DirentInit ==
    /\ tree = {}
    /\ reindex = FALSE
    /\ av_result = [op |-> "init", name |-> 0, maxj |-> 0, status |-> "OK",
                    found |-> {}, before |-> {}]

\* The sub-FSAL modules are loaded; no export holds a reference on them.
FsalNames == {"VFS", "CEPH"}
FsalInit == fsal_refcount = [f \in FsalNames |-> 0]

\* The comparator has not been called.
NoDirents == <<>>
CmpIdle ==
    /\ cmp_in = NoDirents
    /\ cmp_out = {}

\* The state after construction, but for the comparator's inputs.
ProgramInit ==
    /\ AdminInit
    /\ StackInit
    /\ DbusInit
    /\ DirentInit
    /\ FsalInit
    /\ export_list \in [Entries -> SeqsNoDup(Exports) \ {<<>>}]
    /\ entry_list \in [Exports -> SeqsNoDup(Entries)]
    /\ \A e \in Entries, x \in Exports :
          (x \in Range(export_list[e])) <=> (e \in Range(entry_list[x]))
    /\ first_export = [e \in Entries |-> Head(export_list[e])]
    /\ refcnt = [e \in Entries |-> 0]
    /\ nref = [t \in Threads |-> [e \in Entries |-> 0]]
    /\ unreachable = [e \in Entries |-> FALSE]
    /\ in_cleanup = [e \in Entries |-> FALSE]
    /\ freed = [e \in Entries |-> FALSE]
    /\ attr_lock = [e \in Entries |-> Unlocked]
    /\ mdc_exp_lock = [x \in Exports |-> Unlocked]
    /\ lane_lock = NULL
    /\ held = [t \in Threads |-> <<>>]
    /\ pc = [t \in Threads |-> "idle"]
    /\ entry = [t \in Threads |-> NULL]
    /\ expmap = [t \in Threads |-> NO_MAP]
    /\ status = [t \in Threads |-> OK]
    /\ op_export = [t \in Workers |-> NULL]
    /\ sub_unexported = [x \in Exports |-> 0]

Init ==
    /\ ProgramInit
    /\ CmpIdle

----------------------------------------------------------------------------
\* Entry store and LRU primitives (design document 4.2, 4.3).

\* get(entry) -> OK | STALE: STALE when the entry is marked unreachable.
mdcache_get_status(e) == IF unreachable[e] THEN STALE ELSE OK

\* get(entry): increments the reference count unless unreachable is set.
mdcache_get(t, e) ==
    /\ status' = [status EXCEPT ![t] = mdcache_get_status(e)]
    /\ IF mdcache_get_status(e) = OK
       THEN /\ refcnt' = [refcnt EXCEPT ![e] = @ + 1]
            /\ nref' = [nref EXCEPT ![t][e] = @ + 1]
       ELSE UNCHANGED <<refcnt, nref>>

\* put(entry), first half: decrements the reference count; at zero the entry
\* is handed to the LRU engine, which means taking the lane mutex ("lane").
mdcache_put(t, next) ==
    /\ refcnt' = [refcnt EXCEPT ![entry[t]] = @ - 1]
    /\ nref' = [nref EXCEPT ![t][entry[t]] = @ - 1]
    /\ pc' = [pc EXCEPT ![t] =
                 IF refcnt[entry[t]] = 1 THEN "put_lane" ELSE next]

\* Mutant of mdc_remove_export_map: the record is unlinked from the export's
\* entry_list only.
mdc_remove_export_map_one_list(em) ==
    /\ entry_list' = [entry_list EXCEPT ![em[2]] = Remove(@, em[1])]
    /\ UNCHANGED export_list

\* Mutant of mdc_remove_export_map: every association record of the entry
\* is unlinked, not only the one passed.
mdc_remove_export_map_all(em) ==
    /\ export_list' = [export_list EXCEPT ![em[1]] = <<>>]
    /\ entry_list' = [x \in Exports |-> Remove(entry_list[x], em[1])]

\* mdc_remove_export_map(expmap): unlinks the association record from the
\* entry's export_list and from the export's entry_list.
mdc_remove_export_map(em) ==
    /\ export_list' = [export_list EXCEPT ![em[1]] = Remove(@, em[2])]
    /\ entry_list' = [entry_list EXCEPT ![em[2]] = Remove(@, em[1])]

\* Where a thread continues after mdcache_put returned.
AfterPut(t) == IF t \in Unexporters THEN "rdlock" ELSE "idle"

----------------------------------------------------------------------------
\* mdcache_unexport(exp_hdl), one action per statement that takes or drops a
\* lock, calls out, or touches shared state.  t is the calling thread.

\* Mutant of Unexport_subcall: the sub-FSAL's unexport is not called.
Unexport_subcall_skip(t) ==
    /\ pc[t] = "idle"
    /\ pc' = [pc EXCEPT ![t] = "rdlock"]
    /\ UNCHANGED <<cacheVars, lruVars, lockVars, localVars, sub_unexported>>
    /\ UNCHANGED <<adminVars, shutdownVars, otherVars>>

\* Lines 94-97: the sub-FSAL's unexport is called first.
Unexport_subcall(t) ==
    /\ pc[t] = "idle"
    /\ sub_unexported' = [sub_unexported EXCEPT ![exp_hdl(t)] = @ + 1]
    /\ pc' = [pc EXCEPT ![t] = "rdlock"]
    /\ UNCHANGED <<cacheVars, lruVars, lockVars, localVars>>
    /\ UNCHANGED <<adminVars, shutdownVars, otherVars>>

\* Line 101: PTHREAD_RWLOCK_rdlock(&exp->mdc_exp_lock).
Unexport_rdlock(t) ==
    /\ pc[t] = "rdlock"
    /\ mdc_exp_lock[exp_hdl(t)].w = NULL
    /\ mdc_exp_lock' = [mdc_exp_lock EXCEPT ![exp_hdl(t)].r = @ \cup {t}]
    /\ held' = Push(t, ExpLock(exp_hdl(t)))
    /\ pc' = [pc EXCEPT ![t] = "first"]
    /\ UNCHANGED <<cacheVars, lruVars, attr_lock, lane_lock, localVars,
                   sub_unexported>>
    /\ UNCHANGED <<adminVars, shutdownVars, otherVars>>

\* Lines 102-111: read the head of the export's entry_list; an empty list
\* ends the loop (unlock, break), otherwise entry = expmap->entry.
Unexport_first(t) ==
    /\ pc[t] = "first"
    /\ IF glist_first_entry(entry_list[exp_hdl(t)]) = NULL
       THEN /\ mdc_exp_lock' =
                   [mdc_exp_lock EXCEPT ![exp_hdl(t)].r = @ \ {t}]
            /\ held' = Drop(t, ExpLock(exp_hdl(t)))
            /\ expmap' = [expmap EXCEPT ![t] = NO_MAP]
            /\ pc' = [pc EXCEPT ![t] = "done"]
            /\ UNCHANGED entry
       ELSE /\ expmap' = [expmap EXCEPT ![t] =
                   <<glist_first_entry(entry_list[exp_hdl(t)]), exp_hdl(t)>>]
            /\ entry' = [entry EXCEPT ![t] =
                   glist_first_entry(entry_list[exp_hdl(t)])]
            /\ pc' = [pc EXCEPT ![t] = "get"]
            /\ UNCHANGED <<mdc_exp_lock, held>>
    /\ UNCHANGED <<cacheVars, lruVars, attr_lock, lane_lock, status,
                   op_export, sub_unexported>>
    /\ UNCHANGED <<adminVars, shutdownVars, otherVars>>

\* Mutant of Unexport_get: the entry is used without taking a reference.
Unexport_get_noref(t) ==
    /\ pc[t] = "get"
    /\ status' = [status EXCEPT ![t] = mdcache_get_status(entry[t])]
    /\ pc' = [pc EXCEPT ![t] = "unlock_rd"]
    /\ UNCHANGED <<cacheVars, lruVars, lockVars, entry, expmap, op_export,
                   sub_unexported>>
    /\ UNCHANGED <<adminVars, shutdownVars, otherVars>>

\* Line 113: status = mdcache_get(entry), under the export's read lock.
Unexport_get(t) ==
    /\ pc[t] = "get"
    /\ mdcache_get(t, entry[t])
    /\ pc' = [pc EXCEPT ![t] = "unlock_rd"]
    /\ UNCHANGED <<cacheVars, unreachable, in_cleanup, freed, lockVars,
                   entry, expmap, op_export, sub_unexported>>
    /\ UNCHANGED <<adminVars, shutdownVars, otherVars>>

\* Mutant of Unexport_unlock_rd: the stale path joins the common exit of the
\* iteration and puts a reference it never took.
Unexport_unlock_rd_put_stale(t) ==
    /\ pc[t] = "unlock_rd"
    /\ mdc_exp_lock' = [mdc_exp_lock EXCEPT ![exp_hdl(t)].r = @ \ {t}]
    /\ held' = Drop(t, ExpLock(exp_hdl(t)))
    /\ pc' = [pc EXCEPT ![t] = IF status[t] # OK THEN "put" ELSE "wr_attr"]
    /\ status' = [status EXCEPT ![t] = OK]
    /\ UNCHANGED <<cacheVars, lruVars, attr_lock, lane_lock, entry, expmap,
                   op_export, sub_unexported>>
    /\ UNCHANGED <<adminVars, shutdownVars, otherVars>>

\* Mutant of Unexport_unlock_rd: a stale entry ends the loop (break for
\* continue).
Unexport_unlock_rd_break(t) ==
    /\ pc[t] = "unlock_rd"
    /\ mdc_exp_lock' = [mdc_exp_lock EXCEPT ![exp_hdl(t)].r = @ \ {t}]
    /\ held' = Drop(t, ExpLock(exp_hdl(t)))
    /\ pc' = [pc EXCEPT ![t] = IF status[t] # OK THEN "done" ELSE "wr_attr"]
    /\ status' = [status EXCEPT ![t] = OK]
    /\ IF status[t] # OK
       THEN /\ entry' = [entry EXCEPT ![t] = NULL]
            /\ expmap' = [expmap EXCEPT ![t] = NO_MAP]
       ELSE UNCHANGED <<entry, expmap>>
    /\ UNCHANGED <<cacheVars, lruVars, attr_lock, lane_lock, op_export,
                   sub_unexported>>
    /\ UNCHANGED <<adminVars, shutdownVars, otherVars>>

\* Mutant of Unexport_unlock_rd: the reference taken at line 113 is given
\* back together with the read lock, before the write locks are taken.
Unexport_unlock_rd_unref(t) ==
    /\ pc[t] = "unlock_rd"
    /\ mdc_exp_lock' = [mdc_exp_lock EXCEPT ![exp_hdl(t)].r = @ \ {t}]
    /\ held' = Drop(t, ExpLock(exp_hdl(t)))
    /\ pc' = [pc EXCEPT ![t] =
                 IF status[t] # OK THEN "rdlock" ELSE "wr_attr"]
    /\ status' = [status EXCEPT ![t] = OK]
    /\ IF status[t] # OK
       THEN /\ entry' = [entry EXCEPT ![t] = NULL]
            /\ expmap' = [expmap EXCEPT ![t] = NO_MAP]
            /\ UNCHANGED <<refcnt, nref>>
       ELSE /\ refcnt' = [refcnt EXCEPT ![entry[t]] = @ - 1]
            /\ nref' = [nref EXCEPT ![t][entry[t]] = @ - 1]
            /\ UNCHANGED <<entry, expmap>>
    /\ UNCHANGED <<cacheVars, unreachable, in_cleanup, freed, attr_lock,
                   lane_lock, op_export, sub_unexported>>
    /\ UNCHANGED <<adminVars, shutdownVars, otherVars>>

\* Mutant of Unexport_unlock_rd: the read lock is dropped only on the stale
\* path, so attr_lock is taken under mdc_exp_lock.
Unexport_unlock_rd_keep(t) ==
    /\ pc[t] = "unlock_rd"
    /\ IF status[t] # OK
       THEN /\ mdc_exp_lock' =
                   [mdc_exp_lock EXCEPT ![exp_hdl(t)].r = @ \ {t}]
            /\ held' = Drop(t, ExpLock(exp_hdl(t)))
            /\ entry' = [entry EXCEPT ![t] = NULL]
            /\ expmap' = [expmap EXCEPT ![t] = NO_MAP]
       ELSE UNCHANGED <<mdc_exp_lock, held, entry, expmap>>
    /\ pc' = [pc EXCEPT ![t] = IF status[t] # OK THEN "rdlock" ELSE "wr_attr"]
    /\ status' = [status EXCEPT ![t] = OK]
    /\ UNCHANGED <<cacheVars, lruVars, attr_lock, lane_lock, op_export,
                   sub_unexported>>
    /\ UNCHANGED <<adminVars, shutdownVars, otherVars>>

\* Lines 114-119: drop the read lock; a stale entry is skipped (continue).
\* status is not read again, and on continue neither are entry and expmap
\* before the next iteration assigns them: the dead locals are cleared.
Unexport_unlock_rd(t) ==
    /\ pc[t] = "unlock_rd"
    /\ mdc_exp_lock' = [mdc_exp_lock EXCEPT ![exp_hdl(t)].r = @ \ {t}]
    /\ held' = Drop(t, ExpLock(exp_hdl(t)))
    /\ pc' = [pc EXCEPT ![t] =
                 IF status[t] # OK THEN "rdlock" ELSE "wr_attr"]
    /\ status' = [status EXCEPT ![t] = OK]
    /\ IF status[t] # OK
       THEN /\ entry' = [entry EXCEPT ![t] = NULL]
            /\ expmap' = [expmap EXCEPT ![t] = NO_MAP]
       ELSE UNCHANGED <<entry, expmap>>
    /\ UNCHANGED <<cacheVars, lruVars, attr_lock, lane_lock, op_export,
                   sub_unexported>>
    /\ UNCHANGED <<adminVars, shutdownVars, otherVars>>

\* Line 123: PTHREAD_RWLOCK_wrlock(&entry->attr_lock).
Unexport_wr_attr(t) ==
    /\ pc[t] = "wr_attr"
    /\ IsFree(attr_lock[entry[t]])
    /\ attr_lock' = [attr_lock EXCEPT ![entry[t]].w = t]
    /\ held' = Push(t, AttrLock(entry[t]))
    /\ pc' = [pc EXCEPT ![t] = "wr_exp"]
    /\ UNCHANGED <<cacheVars, lruVars, mdc_exp_lock, lane_lock, localVars,
                   sub_unexported>>
    /\ UNCHANGED <<adminVars, shutdownVars, otherVars>>

\* Line 124: PTHREAD_RWLOCK_wrlock(&exp->mdc_exp_lock).
Unexport_wr_exp(t) ==
    /\ pc[t] = "wr_exp"
    /\ IsFree(mdc_exp_lock[exp_hdl(t)])
    /\ mdc_exp_lock' = [mdc_exp_lock EXCEPT ![exp_hdl(t)].w = t]
    /\ held' = Push(t, ExpLock(exp_hdl(t)))
    /\ pc' = [pc EXCEPT ![t] = "remove"]
    /\ UNCHANGED <<cacheVars, lruVars, attr_lock, lane_lock, localVars,
                   sub_unexported>>
    /\ UNCHANGED <<adminVars, shutdownVars, otherVars>>

\* Mutant of Unexport_remove: the entry is pushed to cleanup whether or not
\* other exports remain (the test of line 131 always taken).
Unexport_remove_always_push(t) ==
    /\ pc[t] = "remove"
    /\ mdc_remove_export_map(expmap[t])
    /\ expmap' = [expmap EXCEPT ![t] =
           IF glist_first_entry(export_list'[entry[t]]) = NULL THEN NO_MAP
           ELSE <<entry[t], glist_first_entry(export_list'[entry[t]])>>]
    /\ first_export' = [first_export EXCEPT ![entry[t]] =
           glist_first_entry(export_list'[entry[t]])]
    /\ pc' = [pc EXCEPT ![t] = "unlock_exp_last"]
    /\ UNCHANGED <<lruVars, lockVars, entry, status, op_export,
                   sub_unexported>>
    /\ UNCHANGED <<adminVars, shutdownVars, otherVars>>

\* Mutant of Unexport_remove: first_export is not stored when other exports
\* remain (lines 144-145 missing).
Unexport_remove_stale_first(t) ==
    /\ pc[t] = "remove"
    /\ mdc_remove_export_map(expmap[t])
    /\ expmap' = [expmap EXCEPT ![t] =
           IF glist_first_entry(export_list'[entry[t]]) = NULL THEN NO_MAP
           ELSE <<entry[t], glist_first_entry(export_list'[entry[t]])>>]
    /\ IF expmap'[t] = NO_MAP
       THEN /\ first_export' = [first_export EXCEPT ![entry[t]] = NULL]
            /\ pc' = [pc EXCEPT ![t] = "unlock_exp_last"]
       ELSE /\ UNCHANGED first_export
            /\ pc' = [pc EXCEPT ![t] = "unlock_exp"]
    /\ UNCHANGED <<lruVars, lockVars, entry, status, op_export,
                   sub_unexported>>
    /\ UNCHANGED <<adminVars, shutdownVars, otherVars>>

\* Lines 126-133 and 142-145: remove the association, re-read the head of
\* the entry's export_list and store first_export (NULL when it is empty).
Unexport_remove(t) ==
    /\ pc[t] = "remove"
    /\ mdc_remove_export_map(expmap[t])
    /\ expmap' = [expmap EXCEPT ![t] =
           IF glist_first_entry(export_list'[entry[t]]) = NULL THEN NO_MAP
           ELSE <<entry[t], glist_first_entry(export_list'[entry[t]])>>]
    /\ IF expmap'[t] = NO_MAP
       THEN /\ first_export' = [first_export EXCEPT ![entry[t]] = NULL]
            /\ pc' = [pc EXCEPT ![t] = "unlock_exp_last"]
       ELSE /\ first_export' =
                   [first_export EXCEPT ![entry[t]] = expmap'[t][2]]
            /\ pc' = [pc EXCEPT ![t] = "unlock_exp"]
    /\ UNCHANGED <<lruVars, lockVars, entry, status, op_export,
                   sub_unexported>>
    /\ UNCHANGED <<adminVars, shutdownVars, otherVars>>

\* Lines 136 and 147: PTHREAD_RWLOCK_unlock(&exp->mdc_exp_lock).
Unexport_unlock_exp(t) ==
    /\ pc[t] \in {"unlock_exp_last", "unlock_exp"}
    /\ mdc_exp_lock' = [mdc_exp_lock EXCEPT ![exp_hdl(t)].w = NULL]
    /\ held' = Drop(t, ExpLock(exp_hdl(t)))
    /\ pc' = [pc EXCEPT ![t] =
                 IF pc[t] = "unlock_exp_last" THEN "unlock_attr_last"
                 ELSE "unlock_attr"]
    /\ UNCHANGED <<cacheVars, lruVars, attr_lock, lane_lock, localVars,
                   sub_unexported>>
    /\ UNCHANGED <<adminVars, shutdownVars, otherVars>>

\* Mutant of Unexport_unlock_attr: cleanup_try_push is never called (line 141
\* missing).
Unexport_unlock_attr_no_push(t) ==
    /\ pc[t] \in {"unlock_attr_last", "unlock_attr"}
    /\ attr_lock' = [attr_lock EXCEPT ![entry[t]].w = NULL]
    /\ held' = Drop(t, AttrLock(entry[t]))
    /\ pc' = [pc EXCEPT ![t] = "put"]
    /\ UNCHANGED <<cacheVars, lruVars, mdc_exp_lock, lane_lock, localVars,
                   sub_unexported>>
    /\ UNCHANGED <<adminVars, shutdownVars, otherVars>>

\* Mutant of Unexport_unlock_attr: on the branch that emptied the
\* export_list, cleanup_try_push is called with attr_lock still held.
Unexport_unlock_attr_late(t) ==
    /\ pc[t] \in {"unlock_attr_last", "unlock_attr"}
    /\ IF pc[t] = "unlock_attr_last"
       THEN UNCHANGED <<attr_lock, held>>
       ELSE /\ attr_lock' = [attr_lock EXCEPT ![entry[t]].w = NULL]
            /\ held' = Drop(t, AttrLock(entry[t]))
    /\ pc' = [pc EXCEPT ![t] =
                 IF pc[t] = "unlock_attr_last" THEN "try_push" ELSE "put"]
    /\ UNCHANGED <<cacheVars, lruVars, mdc_exp_lock, lane_lock, localVars,
                   sub_unexported>>
    /\ UNCHANGED <<adminVars, shutdownVars, otherVars>>

\* Lines 137 and 148: PTHREAD_RWLOCK_unlock(&entry->attr_lock); on the
\* branch that emptied the export_list, mdcache_lru_cleanup_try_push is next.
Unexport_unlock_attr(t) ==
    /\ pc[t] \in {"unlock_attr_last", "unlock_attr"}
    /\ attr_lock' = [attr_lock EXCEPT ![entry[t]].w = NULL]
    /\ held' = Drop(t, AttrLock(entry[t]))
    /\ pc' = [pc EXCEPT ![t] =
                 IF pc[t] = "unlock_attr_last" THEN "try_push" ELSE "put"]
    /\ UNCHANGED <<cacheVars, lruVars, mdc_exp_lock, lane_lock, localVars,
                   sub_unexported>>
    /\ UNCHANGED <<adminVars, shutdownVars, otherVars>>

\* Line 141: mdcache_lru_cleanup_try_push(entry) is called; the callee's
\* first step takes the LRU lane mutex.
Unexport_try_push(t) ==
    /\ pc[t] = "try_push"
    /\ lane_lock = NULL
    /\ lane_lock' = t
    /\ held' = Push(t, LaneMutex)
    /\ pc' = [pc EXCEPT ![t] = "push_attr"]
    /\ UNCHANGED <<cacheVars, lruVars, attr_lock, mdc_exp_lock, localVars,
                   sub_unexported>>
    /\ UNCHANGED <<adminVars, shutdownVars, otherVars>>

\* Line 152: mdcache_put(entry), then the next iteration (entry and expmap
\* are dead until it assigns them, and are cleared).
Unexport_put(t) ==
    /\ pc[t] = "put"
    /\ t \in Unexporters
    /\ mdcache_put(t, "rdlock")
    /\ entry' = [entry EXCEPT ![t] = NULL]
    /\ expmap' = [expmap EXCEPT ![t] = NO_MAP]
    /\ UNCHANGED <<cacheVars, unreachable, in_cleanup, freed, lockVars,
                   status, op_export, sub_unexported>>
    /\ UNCHANGED <<adminVars, shutdownVars, otherVars>>

----------------------------------------------------------------------------
\* mdcache_lru_cleanup_try_push(entry) after it took the lane mutex, and the
\* second half of mdcache_put (design document 4.3: the cleanup path takes
\* the lane lock before attr_lock).

\* The cleanup path takes the entry's attr_lock (read) under the lane mutex.
cleanup_try_push_attr(t) ==
    /\ pc[t] = "push_attr"
    /\ attr_lock[entry[t]].w = NULL
    /\ attr_lock' = [attr_lock EXCEPT ![entry[t]].r = @ \cup {t}]
    /\ held' = Push(t, AttrLock(entry[t]))
    /\ pc' = [pc EXCEPT ![t] = "push_move"]
    /\ UNCHANGED <<cacheVars, lruVars, mdc_exp_lock, lane_lock, localVars,
                   sub_unexported>>
    /\ UNCHANGED <<adminVars, shutdownVars, otherVars>>

\* The attempt: an entry that still has no export association and is not yet
\* queued moves to the cleanup queue and becomes unreachable; both locks are
\* dropped.
cleanup_try_push_move(t) ==
    /\ pc[t] = "push_move"
    /\ IF export_list[entry[t]] = <<>> /\ ~in_cleanup[entry[t]]
       THEN /\ in_cleanup' = [in_cleanup EXCEPT ![entry[t]] = TRUE]
            /\ unreachable' = [unreachable EXCEPT ![entry[t]] = TRUE]
       ELSE UNCHANGED <<in_cleanup, unreachable>>
    /\ attr_lock' = [attr_lock EXCEPT ![entry[t]].r = @ \ {t}]
    /\ lane_lock' = NULL
    /\ held' = [held EXCEPT ![t] = <<>>]
    /\ pc' = [pc EXCEPT ![t] = "put"]
    /\ UNCHANGED <<cacheVars, refcnt, nref, freed, mdc_exp_lock, localVars,
                   sub_unexported>>
    /\ UNCHANGED <<adminVars, shutdownVars, otherVars>>

\* put(entry), second half: the count reached zero, the entry is handed to
\* the LRU engine under the lane mutex.
mdcache_put_lane(t) ==
    /\ pc[t] = "put_lane"
    /\ lane_lock = NULL
    /\ lane_lock' = t
    /\ held' = Push(t, LaneMutex)
    /\ pc' = [pc EXCEPT ![t] = "put_unlane"]
    /\ UNCHANGED <<cacheVars, lruVars, attr_lock, mdc_exp_lock, localVars,
                   sub_unexported>>
    /\ UNCHANGED <<adminVars, shutdownVars, otherVars>>

mdcache_put_unlane(t) ==
    /\ pc[t] = "put_unlane"
    /\ lane_lock' = NULL
    /\ held' = Drop(t, LaneMutex)
    /\ pc' = [pc EXCEPT ![t] = AfterPut(t)]
    /\ UNCHANGED <<cacheVars, lruVars, attr_lock, mdc_exp_lock, localVars,
                   sub_unexported>>
    /\ UNCHANGED <<adminVars, shutdownVars, otherVars>>

----------------------------------------------------------------------------
\* A request worker (design document 4.2, 4.4, 4.5): looks an entry up in
\* the entry store under the export of its request, attaches the entry to
\* that export if it is not attached yet, and drops its reference.

\* An entry can be returned by a lookup: it is in the entry store and
\* get() on it does not report STALE.
ReachableByLookup(e) == ~freed[e] /\ mdcache_get_status(e) = OK

\* lookup: get() on an entry of the store; STALE leaves the worker idle.
Worker_lookup(w) ==
    /\ pc[w] = "idle"
    /\ \E e \in Entries, x \in Exports :
          /\ ~freed[e]
          /\ mdcache_get(w, e)
          /\ IF ReachableByLookup(e)
             THEN /\ entry' = [entry EXCEPT ![w] = e]
                  /\ op_export' = [op_export EXCEPT ![w] = x]
                  /\ pc' = [pc EXCEPT ![w] = "check_mapping"]
             ELSE UNCHANGED <<entry, op_export, pc>>
    /\ UNCHANGED <<cacheVars, unreachable, in_cleanup, freed, lockVars,
                   expmap, sub_unexported>>
    /\ UNCHANGED <<adminVars, shutdownVars, otherVars>>

\* The entry is already attached to the request's export: nothing to do.
Worker_mapped(w) ==
    /\ pc[w] = "check_mapping"
    /\ attr_lock[entry[w]].w = NULL
    /\ op_export[w] \in Range(export_list[entry[w]])
    /\ pc' = [pc EXCEPT ![w] = "put"]
    /\ UNCHANGED <<cacheVars, lruVars, lockVars, localVars, sub_unexported>>
    /\ UNCHANGED <<adminVars, shutdownVars, otherVars>>

\* Attaching takes entry.attr_lock, then export.lock (the global order).
Worker_map_attr(w) ==
    /\ pc[w] = "check_mapping"
    /\ attr_lock[entry[w]].w = NULL
    /\ op_export[w] \notin Range(export_list[entry[w]])
    /\ IsFree(attr_lock[entry[w]])
    /\ attr_lock' = [attr_lock EXCEPT ![entry[w]].w = w]
    /\ held' = Push(w, AttrLock(entry[w]))
    /\ pc' = [pc EXCEPT ![w] = "map_exp"]
    /\ UNCHANGED <<cacheVars, lruVars, mdc_exp_lock, lane_lock, localVars,
                   sub_unexported>>
    /\ UNCHANGED <<adminVars, shutdownVars, otherVars>>

Worker_map_exp(w) ==
    /\ pc[w] = "map_exp"
    /\ IsFree(mdc_exp_lock[op_export[w]])
    /\ mdc_exp_lock' = [mdc_exp_lock EXCEPT ![op_export[w]].w = w]
    /\ held' = Push(w, ExpLock(op_export[w]))
    /\ pc' = [pc EXCEPT ![w] = "map_add"]
    /\ UNCHANGED <<cacheVars, lruVars, attr_lock, lane_lock, localVars,
                   sub_unexported>>
    /\ UNCHANGED <<adminVars, shutdownVars, otherVars>>

\* Under both locks: add the association record at the tail of both lists
\* (first_export is set when it is the entry's first), unless the export is
\* being unexported; then drop both locks.
Worker_map_add(w) ==
    /\ pc[w] = "map_add"
    /\ IF /\ op_export[w] \notin Range(export_list[entry[w]])
          /\ pc[UnexporterOf(op_export[w])] = "idle"
       THEN /\ export_list' = [export_list EXCEPT
                                  ![entry[w]] = Append(@, op_export[w])]
            /\ entry_list' = [entry_list EXCEPT
                                 ![op_export[w]] = Append(@, entry[w])]
            /\ first_export' = [first_export EXCEPT ![entry[w]] =
                   IF export_list[entry[w]] = <<>> THEN op_export[w] ELSE @]
       ELSE UNCHANGED cacheVars
    /\ mdc_exp_lock' = [mdc_exp_lock EXCEPT ![op_export[w]].w = NULL]
    /\ attr_lock' = [attr_lock EXCEPT ![entry[w]].w = NULL]
    /\ held' = [held EXCEPT ![w] = <<>>]
    /\ pc' = [pc EXCEPT ![w] = "put"]
    /\ UNCHANGED <<lruVars, lane_lock, localVars, sub_unexported>>
    /\ UNCHANGED <<adminVars, shutdownVars, otherVars>>

\* The worker is done with the entry: put(); the request ends.
Worker_put(w) ==
    /\ pc[w] = "put"
    /\ w \in Workers
    /\ mdcache_put(w, "idle")
    /\ entry' = [entry EXCEPT ![w] = NULL]
    /\ op_export' = [op_export EXCEPT ![w] = NULL]
    /\ UNCHANGED <<cacheVars, unreachable, in_cleanup, freed, lockVars,
                   expmap, status, sub_unexported>>
    /\ UNCHANGED <<adminVars, shutdownVars, otherVars>>

----------------------------------------------------------------------------
\* The entry store's mark_unreachable and the LRU reaper (4.2, 4.3).

\* mark_unreachable(entry): sets the flag; with no reference outstanding the
\* entry is queued for cleanup at once.
mark_unreachable(e) ==
    /\ ~freed[e]
    /\ ~unreachable[e]
    /\ IsFree(attr_lock[e])
    /\ lane_lock = NULL
    /\ unreachable' = [unreachable EXCEPT ![e] = TRUE]
    /\ in_cleanup' = [in_cleanup EXCEPT ![e] = (refcnt[e] = 0) \/ @]
    /\ UNCHANGED <<cacheVars, refcnt, nref, freed, lockVars, localVars, pc,
                   sub_unexported>>
    /\ UNCHANGED <<adminVars, shutdownVars, otherVars>>

\* Reclaim by the reaper: never blocking; with the lane mutex, the entry's
\* attr_lock and the locks of its exports all available and the reference
\* count zero, the entry becomes unreachable, is unlinked from the export
\* map, and is freed.
reaper_reclaim(e) ==
    /\ ~freed[e]
    /\ refcnt[e] = 0
    /\ lane_lock = NULL
    /\ IsFree(attr_lock[e])
    /\ \A x \in Range(export_list[e]) : IsFree(mdc_exp_lock[x])
    /\ unreachable' = [unreachable EXCEPT ![e] = TRUE]
    /\ in_cleanup' = [in_cleanup EXCEPT ![e] = FALSE]
    /\ freed' = [freed EXCEPT ![e] = TRUE]
    /\ export_list' = [export_list EXCEPT ![e] = <<>>]
    /\ entry_list' = [x \in Exports |-> Remove(entry_list[x], e)]
    /\ first_export' = [first_export EXCEPT ![e] = NULL]
    /\ UNCHANGED <<refcnt, nref, lockVars, localVars, pc, sub_unexported>>
    /\ UNCHANGED <<adminVars, shutdownVars, otherVars>>

----------------------------------------------------------------------------
Next ==
    \/ \E t \in Unexporters :
          \/ Unexport_subcall(t)
          \/ Unexport_rdlock(t)
          \/ Unexport_first(t)
          \/ Unexport_get(t)
          \/ Unexport_unlock_rd(t)
          \/ Unexport_wr_attr(t)
          \/ Unexport_wr_exp(t)
          \/ Unexport_remove(t)
          \/ Unexport_unlock_exp(t)
          \/ Unexport_unlock_attr(t)
          \/ Unexport_try_push(t)
          \/ Unexport_put(t)
    \/ \E t \in Threads :
          \/ cleanup_try_push_attr(t)
          \/ cleanup_try_push_move(t)
          \/ mdcache_put_lane(t)
          \/ mdcache_put_unlane(t)
    \/ \E w \in Workers :
          \/ Worker_lookup(w)
          \/ Worker_mapped(w)
          \/ Worker_map_attr(w)
          \/ Worker_map_exp(w)
          \/ Worker_map_add(w)
          \/ Worker_put(w)
    \/ \E e \in Entries :
          \/ mark_unreachable(e)
          \/ reaper_reclaim(e)

Spec == Init /\ [][Next]_vars

----------------------------------------------------------------------------
\* The cache under fair scheduling of its threads.

\* The steps of a thread that runs mdcache_unexport, callees included.
UnexporterSteps(t) ==
    \/ Unexport_subcall(t)
    \/ Unexport_rdlock(t)
    \/ Unexport_first(t)
    \/ Unexport_get(t)
    \/ Unexport_unlock_rd(t)
    \/ Unexport_wr_attr(t)
    \/ Unexport_wr_exp(t)
    \/ Unexport_remove(t)
    \/ Unexport_unlock_exp(t)
    \/ Unexport_unlock_attr(t)
    \/ Unexport_try_push(t)
    \/ Unexport_put(t)
    \/ cleanup_try_push_attr(t)
    \/ cleanup_try_push_move(t)
    \/ mdcache_put_lane(t)
    \/ mdcache_put_unlane(t)

\* The steps of a request worker, callees included.
RequestSteps(w) ==
    \/ Worker_lookup(w)
    \/ Worker_mapped(w)
    \/ Worker_map_attr(w)
    \/ Worker_map_exp(w)
    \/ Worker_map_add(w)
    \/ Worker_put(w)
    \/ cleanup_try_push_attr(w)
    \/ cleanup_try_push_move(w)
    \/ mdcache_put_lane(w)
    \/ mdcache_put_unlane(w)

\* Every thread that runs mdcache_unexport or a request is scheduled
\* fairly, and a thread that waits for a lock that is released again and
\* again gets it.  mark_unreachable is an event of the backend and the reaper
\* reclaims only what it can take without blocking; the reaper is stopped
\* before the exports are removed at shutdown (nfs_admin_thread.c, lines
\* 423-433): nothing obliges either to act.
SpecFair ==
    /\ Init
    /\ [][Next]_vars
    /\ \A t \in Unexporters : SF_vars(UnexporterSteps(t))
    /\ \A w \in Workers : SF_vars(RequestSteps(w))

----------------------------------------------------------------------------
\* Part 2: admin_halt, admin_thread and do_shutdown (nfs_admin_thread.c).
\* Each stage of do_shutdown is one action: the call and its return.  The
\* return code of a stage that reports one is any of RcValues.

\* admin_halt, line 342: PTHREAD_MUTEX_lock(&admin_control_mtx).
admin_halt_lock(h) ==
    /\ halt_pc[h] = "idle"
    /\ admin_control_mtx = NULL
    /\ admin_control_mtx' = h
    /\ halt_pc' = [halt_pc EXCEPT ![h] = "locked"]
    /\ UNCHANGED <<admin_shutdown, cv_signalled, adm_pc, shutdownVars>>
    /\ UNCHANGED <<mdcVars, otherVars>>

\* Mutant of admin_halt_set: the flag is set without the broadcast.
admin_halt_set_no_broadcast(h) ==
    /\ halt_pc[h] = "locked"
    /\ admin_shutdown' = TRUE
    /\ halt_pc' = [halt_pc EXCEPT ![h] = "unlock"]
    /\ UNCHANGED <<cv_signalled, admin_control_mtx, adm_pc, shutdownVars>>
    /\ UNCHANGED <<mdcVars, otherVars>>

\* admin_halt, lines 344-347: set the flag and broadcast, once.
admin_halt_set(h) ==
    /\ halt_pc[h] = "locked"
    /\ IF ~admin_shutdown
       THEN /\ admin_shutdown' = TRUE
            /\ cv_signalled' = (adm_pc = "wait")
       ELSE UNCHANGED <<admin_shutdown, cv_signalled>>
    /\ halt_pc' = [halt_pc EXCEPT ![h] = "unlock"]
    /\ UNCHANGED <<admin_control_mtx, adm_pc, shutdownVars>>
    /\ UNCHANGED <<mdcVars, otherVars>>

\* admin_halt, line 349: PTHREAD_MUTEX_unlock(&admin_control_mtx).
admin_halt_unlock(h) ==
    /\ halt_pc[h] = "unlock"
    /\ admin_control_mtx' = NULL
    /\ halt_pc' = [halt_pc EXCEPT ![h] = "done"]
    /\ UNCHANGED <<admin_shutdown, cv_signalled, adm_pc, shutdownVars>>
    /\ UNCHANGED <<mdcVars, otherVars>>

\* admin_thread, line 457: PTHREAD_MUTEX_lock(&admin_control_mtx).
admin_thread_lock ==
    /\ adm_pc = "start"
    /\ admin_control_mtx = NULL
    /\ admin_control_mtx' = "admin"
    /\ adm_pc' = "check"
    /\ UNCHANGED <<admin_shutdown, cv_signalled, halt_pc, shutdownVars>>
    /\ UNCHANGED <<mdcVars, otherVars>>

\* admin_thread, lines 459-462: while (!admin_shutdown) pthread_cond_wait,
\* which releases the mutex while it waits.
admin_thread_check ==
    /\ adm_pc = "check"
    /\ IF ~admin_shutdown
       THEN /\ admin_control_mtx' = NULL
            /\ cv_signalled' = FALSE
            /\ adm_pc' = "wait"
       ELSE /\ adm_pc' = "unlock"
            /\ UNCHANGED <<admin_control_mtx, cv_signalled>>
    /\ UNCHANGED <<admin_shutdown, halt_pc, shutdownVars>>
    /\ UNCHANGED <<mdcVars, otherVars>>

\* pthread_cond_wait returns after a broadcast, with the mutex re-acquired.
admin_thread_wake ==
    /\ adm_pc = "wait"
    /\ cv_signalled
    /\ admin_control_mtx = NULL
    /\ admin_control_mtx' = "admin"
    /\ cv_signalled' = FALSE
    /\ adm_pc' = "check"
    /\ UNCHANGED <<admin_shutdown, halt_pc, shutdownVars>>
    /\ UNCHANGED <<mdcVars, otherVars>>

\* Mutant of admin_thread_wake_spurious: the flag is not tested again after
\* the wait returned (if for while).
admin_thread_wake_spurious_no_recheck ==
    /\ adm_pc = "wait"
    /\ ~cv_signalled
    /\ admin_control_mtx = NULL
    /\ admin_control_mtx' = "admin"
    /\ adm_pc' = "unlock"
    /\ UNCHANGED <<admin_shutdown, cv_signalled, halt_pc, shutdownVars>>
    /\ UNCHANGED <<mdcVars, otherVars>>

\* pthread_cond_wait may also return spuriously.
admin_thread_wake_spurious ==
    /\ adm_pc = "wait"
    /\ ~cv_signalled
    /\ admin_control_mtx = NULL
    /\ admin_control_mtx' = "admin"
    /\ adm_pc' = "check"
    /\ UNCHANGED <<admin_shutdown, cv_signalled, halt_pc, shutdownVars>>
    /\ UNCHANGED <<mdcVars, otherVars>>

\* admin_thread, lines 464-466: unlock, then do_shutdown() (line 354-355:
\* rc = 0, disorderly = false).
admin_thread_unlock ==
    /\ adm_pc = "unlock"
    /\ admin_control_mtx' = NULL
    /\ rc' = 0
    /\ disorderly' = FALSE
    /\ adm_pc' = "delayed_shutdown"
    /\ UNCHANGED <<admin_shutdown, cv_signalled, halt_pc, calls, returned,
                   delayed_running, listeners_running, accepted>>
    /\ UNCHANGED <<mdcVars, otherVars>>

\* A stage that returns nothing: call f, continue at next.
Stage(f, next) ==
    /\ adm_pc = f
    /\ calls' = Append(calls, f)
    /\ adm_pc' = next

\* A stage whose return code makes the shutdown disorderly when non-zero
\* (rc = f(); if (rc != 0) disorderly = true).
StageRc(f, next) ==
    /\ Stage(f, next)
    /\ \E r \in RcValues :
          /\ rc' = r
          /\ returned' = returned \cup {<<f, r>>}
          /\ disorderly' = (disorderly \/ r # 0)

\* Mutant of do_shutdown_delayed: the listeners are stopped first, then the
\* delayed executor.
do_shutdown_delayed_listeners_first ==
    /\ adm_pc = "delayed_shutdown"
    /\ calls' = calls \o <<"nfs_rpc_dispatch_stop", "delayed_shutdown">>
    /\ adm_pc' = "state_async_shutdown"
    /\ delayed_running' = FALSE
    /\ listeners_running' = FALSE
    /\ UNCHANGED <<adminVars_but_pc, rc, disorderly, returned,
                   accepted>>
    /\ UNCHANGED <<mdcVars, otherVars>>

\* Line 360: delayed_shutdown().
do_shutdown_delayed ==
    /\ Stage("delayed_shutdown", "state_async_shutdown")
    /\ delayed_running' = FALSE
    /\ UNCHANGED <<adminVars_but_pc, rc, disorderly, returned,
                   listeners_running,
                   accepted>>
    /\ UNCHANGED <<mdcVars, otherVars>>

\* Lines 364-373: rc = state_async_shutdown().
do_shutdown_state_async ==
    /\ StageRc("state_async_shutdown", "nfs_rpc_dispatch_stop")
    /\ UNCHANGED <<adminVars_but_pc, delayed_running, listeners_running,
                   accepted>>
    /\ UNCHANGED <<mdcVars, otherVars>>

\* Line 376: nfs_rpc_dispatch_stop() stops the request listeners.
do_shutdown_dispatch_stop ==
    /\ Stage("nfs_rpc_dispatch_stop", "Clean_RPC")
    /\ listeners_running' = FALSE
    /\ UNCHANGED <<adminVars_but_pc, rc, disorderly, returned,
                   delayed_running,
                   accepted>>
    /\ UNCHANGED <<mdcVars, otherVars>>

\* Line 380: Clean_RPC().
do_shutdown_clean_rpc ==
    /\ Stage("Clean_RPC", "fridgethr_sync_command")
    /\ UNCHANGED <<adminVars_but_pc, rc, disorderly, returned,
                   delayed_running,
                   listeners_running, accepted>>
    /\ UNCHANGED <<mdcVars, otherVars>>

\* Mutant of do_shutdown_req_fridge: after a timeout the worker pool and the
\* later thread stages are skipped.
do_shutdown_req_fridge_bail ==
    /\ adm_pc = "fridgethr_sync_command"
    /\ \E r \in RcValues :
          /\ rc' = r
          /\ returned' = returned \cup {<<"fridgethr_sync_command", r>>}
          /\ calls' = calls \o
                (IF r = ETIMEDOUT
                 THEN <<"fridgethr_sync_command", "fridgethr_cancel">>
                 ELSE <<"fridgethr_sync_command">>)
          /\ disorderly' = (disorderly \/ r # 0)
          /\ adm_pc' = IF r = ETIMEDOUT THEN "remove_all_exports"
                       ELSE "worker_shutdown"
    /\ UNCHANGED <<adminVars_but_pc, delayed_running, listeners_running,
                   accepted>>
    /\ UNCHANGED <<mdcVars, otherVars>>

\* Mutant of do_shutdown_req_fridge: the threads are cancelled on every
\* non-zero return code.
do_shutdown_req_fridge_cancel_any ==
    /\ adm_pc = "fridgethr_sync_command"
    /\ \E r \in RcValues :
          /\ rc' = r
          /\ returned' = returned \cup {<<"fridgethr_sync_command", r>>}
          /\ calls' = calls \o
                (IF r # 0
                 THEN <<"fridgethr_sync_command", "fridgethr_cancel">>
                 ELSE <<"fridgethr_sync_command">>)
          /\ disorderly' = (disorderly \/ r # 0)
    /\ adm_pc' = "worker_shutdown"
    /\ UNCHANGED <<adminVars_but_pc, delayed_running, listeners_running,
                   accepted>>
    /\ UNCHANGED <<mdcVars, otherVars>>

\* Lines 383-397: rc = fridgethr_sync_command(req_fridge, stop, 120); on
\* ETIMEDOUT fridgethr_cancel(req_fridge) and disorderly, on another
\* non-zero rc disorderly.
do_shutdown_req_fridge ==
    /\ adm_pc = "fridgethr_sync_command"
    /\ \E r \in RcValues :
          /\ rc' = r
          /\ returned' = returned \cup {<<"fridgethr_sync_command", r>>}
          /\ calls' = calls \o
                (IF r = ETIMEDOUT
                 THEN <<"fridgethr_sync_command", "fridgethr_cancel">>
                 ELSE <<"fridgethr_sync_command">>)
          /\ disorderly' = (disorderly \/ r # 0)
    /\ adm_pc' = "worker_shutdown"
    /\ UNCHANGED <<adminVars_but_pc, delayed_running, listeners_running,
                   accepted>>
    /\ UNCHANGED <<mdcVars, otherVars>>

\* Mutant of do_shutdown_worker: disorderly is assigned the outcome of this
\* stage (disorderly = rc != 0) instead of being set on failure.
do_shutdown_worker_assign ==
    /\ Stage("worker_shutdown", "svc_shutdown")
    /\ \E r \in RcValues :
          /\ rc' = r
          /\ returned' = returned \cup {<<"worker_shutdown", r>>}
          /\ disorderly' = (r # 0)
    /\ UNCHANGED <<adminVars_but_pc, delayed_running, listeners_running,
                   accepted>>
    /\ UNCHANGED <<mdcVars, otherVars>>

\* Lines 401-410: rc = worker_shutdown().
do_shutdown_worker ==
    /\ StageRc("worker_shutdown", "svc_shutdown")
    /\ UNCHANGED <<adminVars_but_pc, delayed_running, listeners_running,
                   accepted>>
    /\ UNCHANGED <<mdcVars, otherVars>>

\* Line 412: (void)svc_shutdown(SVC_SHUTDOWN_FLAG_NONE).
do_shutdown_svc ==
    /\ Stage("svc_shutdown", "general_fridge_shutdown")
    /\ UNCHANGED <<adminVars_but_pc, rc, disorderly, returned,
                   delayed_running,
                   listeners_running, accepted>>
    /\ UNCHANGED <<mdcVars, otherVars>>

\* Lines 414-421: rc = general_fridge_shutdown().
do_shutdown_general_fridge ==
    /\ StageRc("general_fridge_shutdown", "reaper_shutdown")
    /\ UNCHANGED <<adminVars_but_pc, delayed_running, listeners_running,
                   accepted>>
    /\ UNCHANGED <<mdcVars, otherVars>>

\* Lines 423-430: rc = reaper_shutdown().
do_shutdown_reaper ==
    /\ StageRc("reaper_shutdown", "remove_all_exports")
    /\ UNCHANGED <<adminVars_but_pc, delayed_running, listeners_running,
                   accepted>>
    /\ UNCHANGED <<mdcVars, otherVars>>

\* Line 433: remove_all_exports().
do_shutdown_remove_all_exports ==
    /\ Stage("remove_all_exports", "fsals")
    /\ UNCHANGED <<adminVars_but_pc, rc, disorderly, returned,
                   delayed_running,
                   listeners_running, accepted>>
    /\ UNCHANGED <<mdcVars, otherVars>>

\* Mutant of do_shutdown_fsals: the branch tests the last return code
\* instead of disorderly.
do_shutdown_fsals_last_rc ==
    /\ adm_pc = "fsals"
    /\ calls' = Append(calls, IF rc # 0 THEN "emergency_cleanup_fsals"
                              ELSE "destroy_fsals")
    /\ adm_pc' = "unlink"
    /\ UNCHANGED <<adminVars_but_pc, rc, disorderly, returned,
                   delayed_running, listeners_running, accepted>>
    /\ UNCHANGED <<mdcVars, otherVars>>

\* Lines 435-448: emergency_cleanup_fsals() if disorderly, else
\* destroy_fsals().
do_shutdown_fsals ==
    /\ adm_pc = "fsals"
    /\ calls' = Append(calls, IF disorderly THEN "emergency_cleanup_fsals"
                              ELSE "destroy_fsals")
    /\ adm_pc' = "unlink"
    /\ UNCHANGED <<adminVars_but_pc, rc, disorderly, returned,
                   delayed_running,
                   listeners_running, accepted>>
    /\ UNCHANGED <<mdcVars, otherVars>>

\* Line 450: unlink(pidfile_path); do_shutdown and the admin thread return.
do_shutdown_unlink ==
    /\ Stage("unlink", "exit")
    /\ UNCHANGED <<adminVars_but_pc, rc, disorderly, returned,
                   delayed_running,
                   listeners_running, accepted>>
    /\ UNCHANGED <<mdcVars, otherVars>>

\* The protocol engine: a running listener accepts a request.
listener_accept ==
    /\ listeners_running
    /\ accepted < MaxRequests
    /\ accepted' = accepted + 1
    /\ UNCHANGED <<adminVars, rc, disorderly, calls, returned,
                   delayed_running, listeners_running>>
    /\ UNCHANGED <<mdcVars, otherVars>>

ShutdownNext ==
    \/ \E h \in Halters :
          \/ admin_halt_lock(h)
          \/ admin_halt_set(h)
          \/ admin_halt_unlock(h)
    \/ admin_thread_lock
    \/ admin_thread_check
    \/ admin_thread_wake
    \/ admin_thread_wake_spurious
    \/ admin_thread_unlock
    \/ do_shutdown_delayed
    \/ do_shutdown_state_async
    \/ do_shutdown_dispatch_stop
    \/ do_shutdown_clean_rpc
    \/ do_shutdown_req_fridge
    \/ do_shutdown_worker
    \/ do_shutdown_svc
    \/ do_shutdown_general_fridge
    \/ do_shutdown_reaper
    \/ do_shutdown_remove_all_exports
    \/ do_shutdown_fsals
    \/ do_shutdown_unlink
    \/ listener_accept

\* The cache as the server runs it at shutdown time: both entries visible
\* through both exports.
ShutdownInit ==
    /\ export_list = [e \in Entries |-> <<"A", "B">>]
    /\ entry_list = [x \in Exports |-> <<"e1", "e2">>]
    /\ Init

SpecShutdown == ShutdownInit /\ [][ShutdownNext]_vars

----------------------------------------------------------------------------
\* The shutdown with its sixth stage in detail.  remove_all_exports (line
\* 433) unexports every export in turn (design document 4.7, step 6), which
\* for an MDCACHE export is mdcache_unexport, run by the admin thread.  The
\* request worker runs beside it and may stop for ever at any point of a
\* request: no fairness is assumed for it.

\* Line 433: remove_all_exports() is called.
remove_all_exports_begin ==
    /\ Stage("remove_all_exports", "removing")
    /\ UNCHANGED <<adminVars_but_pc, rc, disorderly, returned,
                   delayed_running, listeners_running, accepted>>
    /\ UNCHANGED <<mdcVars, otherVars>>

\* The order in which remove_all_exports unexports the exports.
UnexportOrder == <<"uA", "uB">>

\* The next export is unexported once the ones before it are done.
remove_all_exports_unexport(t) ==
    /\ adm_pc = "removing"
    /\ \E i \in 1..Len(UnexportOrder) :
          /\ UnexportOrder[i] = t
          /\ \A j \in 1..(i - 1) : pc[UnexportOrder[j]] = "done"
    /\ Unexport_subcall(t)

\* remove_all_exports() returns when every export is unexported.
remove_all_exports_end ==
    /\ adm_pc = "removing"
    /\ \A u \in Unexporters : pc[u] = "done"
    /\ adm_pc' = "fsals"
    /\ UNCHANGED <<adminVars_but_pc, shutdownVars>>
    /\ UNCHANGED <<mdcVars, otherVars>>

\* The threads of the state, general-fridge and reaper stages are not the
\* blocked one: these stages return 0 here.
state_async_shutdown_ok == do_shutdown_state_async /\ rc' = 0
general_fridge_shutdown_ok == do_shutdown_general_fridge /\ rc' = 0
reaper_shutdown_ok == do_shutdown_reaper /\ rc' = 0

\* The steps of callers of admin_halt.
HalterSteps ==
    \E h \in Halters :
       \/ admin_halt_lock(h)
       \/ admin_halt_set(h)
       \/ admin_halt_unlock(h)

\* The steps of the admin thread, mdcache_unexport and its callees included.
AdminThreadSteps ==
    \/ admin_thread_lock
    \/ admin_thread_check
    \/ admin_thread_wake
    \/ admin_thread_wake_spurious
    \/ admin_thread_unlock
    \/ do_shutdown_delayed
    \/ state_async_shutdown_ok
    \/ do_shutdown_dispatch_stop
    \/ do_shutdown_clean_rpc
    \/ do_shutdown_req_fridge
    \/ do_shutdown_worker
    \/ do_shutdown_svc
    \/ general_fridge_shutdown_ok
    \/ reaper_shutdown_ok
    \/ remove_all_exports_begin
    \/ \E t \in Unexporters :
          \/ remove_all_exports_unexport(t)
          \/ Unexport_rdlock(t)
          \/ Unexport_first(t)
          \/ Unexport_get(t)
          \/ Unexport_unlock_rd(t)
          \/ Unexport_wr_attr(t)
          \/ Unexport_wr_exp(t)
          \/ Unexport_remove(t)
          \/ Unexport_unlock_exp(t)
          \/ Unexport_unlock_attr(t)
          \/ Unexport_try_push(t)
          \/ Unexport_put(t)
          \/ cleanup_try_push_attr(t)
          \/ cleanup_try_push_move(t)
          \/ mdcache_put_lane(t)
          \/ mdcache_put_unlane(t)
    \/ remove_all_exports_end
    \/ do_shutdown_fsals
    \/ do_shutdown_unlink

\* The steps of the request workers.
WorkerSteps ==
    \E w \in Workers :
       \/ Worker_lookup(w)
       \/ Worker_mapped(w)
       \/ Worker_map_attr(w)
       \/ Worker_map_exp(w)
       \/ Worker_map_add(w)
       \/ Worker_put(w)
       \/ mdcache_put_lane(w)
       \/ mdcache_put_unlane(w)

ShutdownLiveNext ==
    \/ HalterSteps
    \/ AdminThreadSteps
    \/ WorkerSteps

\* The threads that call admin_halt and the admin thread keep running; a
\* worker need not.
SpecShutdownLive ==
    /\ ShutdownInit
    /\ [][ShutdownLiveNext]_vars
    /\ WF_vars(HalterSteps)
    /\ WF_vars(AdminThreadSteps)

----------------------------------------------------------------------------
\* The admin thread under fair scheduling.

\* The steps the admin thread takes when it is scheduled: everything but a
\* spurious return of pthread_cond_wait, which nothing obliges to happen.
AdminSteps ==
    \/ admin_thread_lock
    \/ admin_thread_check
    \/ admin_thread_wake
    \/ admin_thread_unlock
    \/ do_shutdown_delayed
    \/ do_shutdown_state_async
    \/ do_shutdown_dispatch_stop
    \/ do_shutdown_clean_rpc
    \/ do_shutdown_req_fridge
    \/ do_shutdown_worker
    \/ do_shutdown_svc
    \/ do_shutdown_general_fridge
    \/ do_shutdown_reaper
    \/ do_shutdown_remove_all_exports
    \/ do_shutdown_fsals
    \/ do_shutdown_unlink

\* The callers of admin_halt and the admin thread keep running.
SpecAdminLive ==
    /\ ShutdownInit
    /\ [][ShutdownNext]_vars
    /\ WF_vars(HalterSteps)
    /\ WF_vars(AdminSteps)

----------------------------------------------------------------------------
\* Part 3: the export operations of the stacking layer (mdcache_export.c,
\* lines 64-77, 196-751 and 829-934).  One thread calls them; the request
\* context op_ctx is that thread's.

\* The sub-FSAL each export is configured with.
SubFsalName == [x \in Exports |-> IF x = "A" THEN "VFS" ELSE "CEPH"]

\* &exp->export and exp->export.sub_export of the MDCACHE export of x.
MDC(x) == <<"MDC", x>>
SUB(x) == <<"SUB", x>>

\* Argument values; MDCACHE object handles and the sub-FSAL handles their
\* entries wrap (entry->sub_handle).
ArgValues == {"a", "b"}
ObjHandles == {"obj_e1", "obj_e2"}
sub_handle(h) == IF h = "obj_e1" THEN "sub_e1" ELSE "sub_e2"

\* The operations that only forward, by the number of arguments they take
\* besides the export.
NoArgOps ==
    {"fs_maxfilesize", "fs_maxread", "fs_maxwrite", "fs_maxlink",
     "fs_maxnamelen", "fs_maxpathlen", "fs_lease_time", "fs_acl_support",
     "fs_supported_attrs", "fs_umask", "fs_xattr_access_rights",
     "fs_layout_blocksize", "fs_maximum_segments", "fs_loc_body_size"}
OneArgOps == {"fs_supports", "get_write_verifier", "free_state"}
TwoArgOps == {"check_quota", "fs_layouttypes", "alloc_state"}
ThreeArgOps == {"extract_handle"}
FourArgOps == {"get_quota", "getdevicelist"}
FiveArgOps == {"set_quota"}
HandleOps == {"get_fs_dynamic_info"}
PassThroughOps ==
    NoArgOps \cup OneArgOps \cup TwoArgOps \cup ThreeArgOps \cup FourArgOps
       \cup FiveArgOps \cup HandleOps

\* The operations that return nothing.
VoidOps == {"fs_layouttypes", "get_write_verifier", "free_state", "unexport"}

\* mdcache_unexport forwards too (lines 94-97) before it cleans the cache.
ForwardedOps == PassThroughOps \cup {"unexport"}

Arity(op) ==
    CASE op \in OneArgOps -> 1
      [] op \in TwoArgOps -> 2
      [] op \in ThreeArgOps -> 3
      [] op \in FourArgOps -> 4
      [] op \in FiveArgOps -> 5
      [] OTHER -> 0

\* The arguments an operation can be called with.
Args(op) ==
    IF op \in HandleOps THEN ObjHandles \X ArgValues
    ELSE [1..Arity(op) -> ArgValues]

\* The arguments the operation hands to the sub-export: its own, except
\* that get_fs_dynamic_info passes entry->sub_handle for obj_hdl (lines
\* 202-208).
SubArgs(op, args) ==
    IF op \in HandleOps THEN <<sub_handle(args[1]), args[2]>> ELSE args

\* What a sub-export's operation can return.
SubResults(op) == IF op \in VoidOps THEN {"void"} ELSE {"r1", "r2"}

\* snprintf(buf, size, ...): at most size - 1 characters are stored.
Snprintf(size, str) ==
    IF Len(str) < size THEN str ELSE SubSeq(str, 1, size - 1)

\* mdc_cur_export(): the MDCACHE export installed in the request context.
mdc_cur_export == op_ctx.fsal_export[2]

\* The subcall shim (design document 4.4): the sub-export is installed in
\* the request context for the call, and the context is as before after it.
subcall_installed(x) == SUB(x)
subcall_restored == saved_export

\* The protocol layer starts a request on another export: no operation of
\* the new request has been called yet.
op_ctx_set(x) ==
    /\ st_pc = "idle"
    /\ x \in stacked
    /\ op_ctx.fsal_export # MDC(x)
    /\ op_ctx' = [fsal_export |-> MDC(x)]
    /\ cur' = [op |-> "none", exp |-> "none", args |-> <<>>]
    /\ result' = [op |-> "none", exp |-> "none", value |-> "none"]
    /\ UNCHANGED <<stacked, exp_name, st_pc, saved_export, sub_calls,
                   sub_result>>
    /\ UNCHANGED <<mdcVars, adminVars, shutdownVars, dbusVars, direntVars,
                   fsalVars, cmpVars>>

\* Lines 72-77: mdcache_get_name(exp_hdl) returns mdc_cur_export()->name.
mdcache_get_name(x) ==
    /\ st_pc = "idle"
    /\ x \in stacked
    /\ op_ctx.fsal_export # NO_EXPORT
    /\ cur' = [op |-> "get_name", exp |-> x, args |-> <<>>]
    /\ saved_export' = op_ctx.fsal_export
    /\ sub_calls' = <<>>
    /\ sub_result' = "none"
    /\ result' = [op |-> "get_name", exp |-> x,
                  value |-> exp_name[mdc_cur_export]]
    /\ UNCHANGED <<op_ctx, stacked, exp_name, st_pc>>
    /\ UNCHANGED <<mdcVars, adminVars, shutdownVars, dbusVars, direntVars,
                   fsalVars, cmpVars>>

\* A forwarding operation is called on the MDCACHE export of x: exp =
\* mdc_export(exp_hdl), sub_export = exp->export.sub_export.
mdcache_op_call(op, x, args) ==
    /\ st_pc = "idle"
    /\ x \in stacked
    /\ op_ctx.fsal_export # NO_EXPORT
    /\ cur' = [op |-> op, exp |-> x, args |-> args]
    /\ saved_export' = op_ctx.fsal_export
    /\ sub_calls' = <<>>
    /\ sub_result' = "none"
    /\ result' = NO_RESULT
    /\ st_pc' = "subcall"
    /\ UNCHANGED <<op_ctx, stacked, exp_name>>
    /\ UNCHANGED <<mdcVars, adminVars, shutdownVars, dbusVars, direntVars,
                   fsalVars, cmpVars>>

\* Mutant of mdcache_op_subcall: the sub-export's operation is called
\* without the shim.
mdcache_op_subcall_direct ==
    /\ st_pc = "subcall"
    /\ sub_calls' = Append(sub_calls,
                       [op |-> cur.op, export |-> SUB(cur.exp),
                        args |-> SubArgs(cur.op, cur.args),
                        ctx |-> op_ctx.fsal_export])
    /\ sub_result' \in SubResults(cur.op)
    /\ st_pc' = "return"
    /\ UNCHANGED <<op_ctx, stacked, exp_name, cur, saved_export, result>>
    /\ UNCHANGED <<mdcVars, adminVars, shutdownVars, dbusVars, direntVars,
                   fsalVars, cmpVars>>

\* Mutant of mdcache_op_subcall: the sub-export's operation is called
\* twice.
mdcache_op_subcall_twice ==
    /\ st_pc = "subcall"
    /\ LET call == [op |-> cur.op, export |-> SUB(cur.exp),
                    args |-> SubArgs(cur.op, cur.args),
                    ctx |-> subcall_installed(cur.exp)]
       IN sub_calls' = sub_calls \o <<call, call>>
    /\ sub_result' \in SubResults(cur.op)
    /\ op_ctx' = [fsal_export |-> subcall_restored]
    /\ st_pc' = "return"
    /\ UNCHANGED <<stacked, exp_name, cur, saved_export, result>>
    /\ UNCHANGED <<mdcVars, adminVars, shutdownVars, dbusVars, direntVars,
                   fsalVars, cmpVars>>

\* subcall_raw(exp, result = sub_export->exp_ops.op(sub_export, ...)): the
\* sub-export's operation runs once, under the shim.
mdcache_op_subcall ==
    /\ st_pc = "subcall"
    /\ sub_calls' = Append(sub_calls,
                       [op |-> cur.op, export |-> SUB(cur.exp),
                        args |-> SubArgs(cur.op, cur.args),
                        ctx |-> subcall_installed(cur.exp)])
    /\ sub_result' \in SubResults(cur.op)
    /\ op_ctx' = [fsal_export |-> subcall_restored]
    /\ st_pc' = "return"
    /\ UNCHANGED <<stacked, exp_name, cur, saved_export, result>>
    /\ UNCHANGED <<mdcVars, adminVars, shutdownVars, dbusVars, direntVars,
                   fsalVars, cmpVars>>

\* return result (return status, return state; nothing for a void one).
mdcache_op_return ==
    /\ st_pc = "return"
    /\ result' = [op |-> cur.op, exp |-> cur.exp, value |-> sub_result]
    /\ st_pc' = "idle"
    /\ UNCHANGED <<op_ctx, stacked, exp_name, cur, saved_export, sub_calls,
                   sub_result>>
    /\ UNCHANGED <<mdcVars, adminVars, shutdownVars, dbusVars, direntVars,
                   fsalVars, cmpVars>>

\* Statuses of the sub-FSAL's create_export.
CreateStatuses == {"ERR_FSAL_NO_ERROR", "ERR_FSAL_INVAL", "ERR_FSAL_NOMEM"}
FSAL_IS_ERROR(st) == st # "ERR_FSAL_NO_ERROR"

\* Lines 829-866: mdc_init_export wraps the sub-export found in the request
\* context: the name is the sub-FSAL's with "/MDC" appended, the new export
\* is stacked on the sub-export and installed in the request context.
mdc_init_export(x) ==
    /\ exp_name' = [exp_name EXCEPT ![x] =
                       Snprintf(Len(SubFsalName[x]) + 5,
                                SubFsalName[x] \o "/MDC")]
    /\ stacked' = stacked \cup {x}
    /\ op_ctx' = [fsal_export |-> MDC(x)]

\* fsal_get and fsal_put on a module's reference count.
fsal_get(refs, f) == [refs EXCEPT ![f] = @ + 1]
fsal_put(refs, f) == [refs EXCEPT ![f] = @ - 1]

\* sub_export->fsal: the module of the sub-export of x.
FsalOf(x) == SubFsalName[x]

\* lookup_fsal(name): the module found, with a reference taken on it for
\* the caller.
lookup_fsal(refs, f) == fsal_get(refs, f)

\* Line 842 of mdc_init_export: fsal_get(op_ctx->fsal_export->fsal), the
\* module of the sub-export that create_export left in the context.
mdc_init_export_get(refs, x) == fsal_get(refs, FsalOf(x))

\* The outcome of a create_export that stacks nothing.
CreateFails(x, st) ==
    /\ result' = [op |-> "create_export", exp |-> x, value |-> st]
    /\ UNCHANGED <<op_ctx, stacked, exp_name>>

\* Mutant of mdcache_fsal_create_export: the sub-export is wrapped whatever
\* its create_export returned.
mdcache_fsal_create_export_wrap_always(x) ==
    /\ st_pc = "idle"
    /\ x \notin stacked
    /\ saved_export' = op_ctx.fsal_export
    /\ sub_result' = "none"
    /\ \E load \in {"load_ok", "load_failed"},
          look \in {"found", "not_found"}, st \in CreateStatuses :
          /\ cur' = [op |-> "create_export", exp |-> x,
                     args |-> <<load, look, st>>]
          /\ IF load = "load_failed" \/ look = "not_found"
             THEN /\ sub_calls' = <<>>
                  /\ CreateFails(x, "ERR_FSAL_INVAL")
                  /\ UNCHANGED fsal_refcount
             ELSE /\ sub_calls' = <<[op |-> "create_export",
                                     export |-> <<"FSAL", SubFsalName[x]>>,
                                     args |-> <<>>,
                                     ctx |-> op_ctx.fsal_export]>>
                  /\ mdc_init_export(x)
                  /\ fsal_refcount' =
                        fsal_put(mdc_init_export_get(
                                    lookup_fsal(fsal_refcount,
                                                SubFsalName[x]), x),
                                 SubFsalName[x])
                  /\ result' = [op |-> "create_export", exp |-> x,
                                value |-> st]
    /\ UNCHANGED st_pc
    /\ UNCHANGED <<mdcVars, adminVars, shutdownVars, dbusVars, direntVars,
                   cmpVars>>

\* Mutant of mdcache_fsal_create_export: the reference lookup_fsal took is
\* not given back when the sub-FSAL's create_export fails (line 924
\* missing).
mdcache_fsal_create_export_leak(x) ==
    /\ st_pc = "idle"
    /\ x \notin stacked
    /\ saved_export' = op_ctx.fsal_export
    /\ sub_result' = "none"
    /\ \E load \in {"load_ok", "load_failed"},
          look \in {"found", "not_found"}, st \in CreateStatuses :
          /\ cur' = [op |-> "create_export", exp |-> x,
                     args |-> <<load, look, st>>]
          /\ IF load = "load_failed" \/ look = "not_found"
             THEN /\ sub_calls' = <<>>
                  /\ CreateFails(x, "ERR_FSAL_INVAL")
                  /\ UNCHANGED fsal_refcount
             ELSE /\ sub_calls' = <<[op |-> "create_export",
                                     export |-> <<"FSAL", SubFsalName[x]>>,
                                     args |-> <<>>,
                                     ctx |-> op_ctx.fsal_export]>>
                  /\ IF FSAL_IS_ERROR(st)
                     THEN /\ CreateFails(x, st)
                          /\ fsal_refcount' =
                                lookup_fsal(fsal_refcount, SubFsalName[x])
                     ELSE /\ mdc_init_export(x)
                          /\ fsal_refcount' =
                                fsal_put(mdc_init_export_get(
                                            lookup_fsal(fsal_refcount,
                                                        SubFsalName[x]), x),
                                         SubFsalName[x])
                          /\ result' = [op |-> "create_export", exp |-> x,
                                        value |-> "ERR_FSAL_NO_ERROR"]
    /\ UNCHANGED st_pc
    /\ UNCHANGED <<mdcVars, adminVars, shutdownVars, dbusVars, direntVars,
                   cmpVars>>

\* Lines 886-934: mdcache_fsal_create_export.  load_config_from_node fails
\* or lookup_fsal finds nothing: ERR_FSAL_INVAL.  Otherwise the sub-FSAL's
\* create_export is called; its error is returned as it is, after the
\* reference lookup_fsal took is put (line 924); on success
\* mdc_init_export wraps the sub-export it left in the request context and
\* takes its own reference (line 842), and lookup_fsal's is put (line 931).
mdcache_fsal_create_export(x) ==
    /\ st_pc = "idle"
    /\ x \notin stacked
    /\ saved_export' = op_ctx.fsal_export
    /\ sub_result' = "none"
    /\ \E load \in {"load_ok", "load_failed"},
          look \in {"found", "not_found"}, st \in CreateStatuses :
          /\ cur' = [op |-> "create_export", exp |-> x,
                     args |-> <<load, look, st>>]
          /\ IF load = "load_failed" \/ look = "not_found"
             THEN /\ sub_calls' = <<>>
                  /\ CreateFails(x, "ERR_FSAL_INVAL")
                  /\ UNCHANGED fsal_refcount
             ELSE /\ sub_calls' = <<[op |-> "create_export",
                                     export |-> <<"FSAL", SubFsalName[x]>>,
                                     args |-> <<>>,
                                     ctx |-> op_ctx.fsal_export]>>
                  /\ IF FSAL_IS_ERROR(st)
                     THEN /\ CreateFails(x, st)
                          /\ fsal_refcount' =
                                fsal_put(lookup_fsal(fsal_refcount,
                                                     SubFsalName[x]),
                                         SubFsalName[x])
                     ELSE /\ mdc_init_export(x)
                          /\ fsal_refcount' =
                                fsal_put(mdc_init_export_get(
                                            lookup_fsal(fsal_refcount,
                                                        SubFsalName[x]), x),
                                         SubFsalName[x])
                          /\ result' = [op |-> "create_export", exp |-> x,
                                        value |-> "ERR_FSAL_NO_ERROR"]
    /\ UNCHANGED st_pc
    /\ UNCHANGED <<mdcVars, adminVars, shutdownVars, dbusVars, direntVars,
                   cmpVars>>

\* Lines 161-182: mdcache_exp_release.  The sub-export is released under
\* the shim, the reference on its module is put (line 174), the export is
\* detached and its name and itself are freed; the caller's context no
\* longer names the export.
mdcache_exp_release(x) ==
    /\ st_pc = "idle"
    /\ x \in stacked
    /\ cur' = [op |-> "release", exp |-> x, args |-> <<>>]
    /\ saved_export' = op_ctx.fsal_export
    /\ sub_calls' = <<[op |-> "release", export |-> SUB(x), args |-> <<>>,
                       ctx |-> SUB(x)]>>
    /\ sub_result' = "void"
    /\ fsal_refcount' = fsal_put(fsal_refcount, FsalOf(x))
    /\ stacked' = stacked \ {x}
    /\ exp_name' = [exp_name EXCEPT ![x] = ""]
    /\ op_ctx' = IF op_ctx.fsal_export = MDC(x)
                 THEN [fsal_export |-> NO_EXPORT] ELSE op_ctx
    /\ result' = [op |-> "release", exp |-> x, value |-> "void"]
    /\ UNCHANGED st_pc
    /\ UNCHANGED <<mdcVars, adminVars, shutdownVars, dbusVars, direntVars,
                   cmpVars>>

ExportNext ==
    \/ \E x \in Exports :
          \/ mdcache_fsal_create_export(x)
          \/ mdcache_exp_release(x)
          \/ op_ctx_set(x)
          \/ mdcache_get_name(x)
          \/ \E op \in ForwardedOps : \E args \in Args(op) :
                mdcache_op_call(op, x, args)
    \/ mdcache_op_subcall
    \/ mdcache_op_return

SpecExport == ShutdownInit /\ [][ExportNext]_vars

----------------------------------------------------------------------------
\* Part 4: the admin methods on the bus (nfs_admin_thread.c, lines 76-286).
\* A method is called with an argument iterator: none (args == NULL), one
\* whose first argument is a string, or one whose first argument is not.

MaxDbusCalls == 3

\* The string argument of the grace method, "event:IP-address" or
\* "IP-address", by what index(input, ':') finds: the text before the
\* colon (an event number, "" when there is no colon) and the rest.
GraceInputs ==
    {[event |-> "", rest |-> "10.0.0.1"],
     [event |-> "EVENT_RELEASE_IP", rest |-> "10.0.0.1"],
     [event |-> "EVENT_TAKE_NODEID", rest |-> "2"]}

NoInput == [event |-> "", rest |-> ""]

\* The argument iterators a method can be called with.
DbusArgs ==
    {[type |-> "NULL", input |-> NoInput],
     [type |-> "DBUS_TYPE_INT32", input |-> NoInput]}
       \cup {[type |-> "DBUS_TYPE_STRING", input |-> i] : i \in GraceInputs}

\* Lines 146-164: the nfs_grace_start_t built from the input.
GraceStart(input) ==
    LET event == IF input.event = "" THEN "EVENT_TAKE_IP" ELSE input.event
    IN [event |-> event,
        ipaddr |-> input.rest,
        nodeid |-> IF event = "EVENT_TAKE_NODEID" THEN input.rest
                   ELSE "-1"]

\* dbus_status_reply(&iter, success, errormsg), after what the method
\* appended to the reply.
Reply(success, payload) ==
    dbus_replies' = Append(dbus_replies,
                           [success |-> success, payload |-> payload])

Received(method, args) ==
    /\ Len(dbus_calls) < MaxDbusCalls
    /\ dbus_calls' = Append(dbus_calls, [method |-> method, args |-> args])

\* Lines 340-350, called from a method: admin_halt() takes the mutex, sets
\* the flag and broadcasts if it was clear, and releases the mutex.
admin_halt_called ==
    /\ admin_control_mtx = NULL
    /\ halt_calls' = halt_calls + 1
    /\ IF ~admin_shutdown
       THEN /\ admin_shutdown' = TRUE
            /\ cv_signalled' = (adm_pc = "wait")
       ELSE UNCHANGED <<admin_shutdown, cv_signalled>>

\* Lines 76-99: get_grace.
admin_dbus_get_grace(args) ==
    /\ Received("get_grace", args)
    /\ IF args.type # "NULL"
       THEN /\ Reply(FALSE, "none")
            /\ UNCHANGED grace_reads
       ELSE /\ grace_reads' = grace_reads + 1
            /\ Reply(TRUE, IF in_grace THEN "TRUE" ELSE "FALSE")
    /\ UNCHANGED <<halt_calls, grace_starts, gid_clears, ng_clears, in_grace>>
    /\ UNCHANGED <<mdcVars, adminVars, shutdownVars, stackVars, direntVars,
                   fsalVars, cmpVars>>

\* Mutant of admin_dbus_grace: the type of the argument is not looked at.
admin_dbus_grace_any_type(args) ==
    /\ Received("grace", args)
    /\ IF args.type = "NULL"
       THEN /\ Reply(FALSE, "none")
            /\ UNCHANGED <<grace_starts, in_grace>>
       ELSE /\ grace_starts' = Append(grace_starts, GraceStart(args.input))
            /\ in_grace' = TRUE
            /\ Reply(TRUE, "none")
    /\ UNCHANGED <<halt_calls, grace_reads, gid_clears, ng_clears>>
    /\ UNCHANGED <<mdcVars, adminVars, shutdownVars, stackVars, direntVars,
                   fsalVars, cmpVars>>

\* Lines 120-169: grace.
admin_dbus_grace(args) ==
    /\ Received("grace", args)
    /\ IF args.type = "NULL" \/ args.type # "DBUS_TYPE_STRING"
       THEN /\ Reply(FALSE, "none")
            /\ UNCHANGED <<grace_starts, in_grace>>
       ELSE /\ grace_starts' = Append(grace_starts, GraceStart(args.input))
            /\ in_grace' = TRUE
            /\ Reply(TRUE, "none")
    /\ UNCHANGED <<halt_calls, grace_reads, gid_clears, ng_clears>>
    /\ UNCHANGED <<mdcVars, adminVars, shutdownVars, stackVars, direntVars,
                   fsalVars, cmpVars>>

\* Lines 186-207: shutdown.
admin_dbus_shutdown(args) ==
    /\ Received("shutdown", args)
    /\ IF args.type # "NULL"
       THEN /\ Reply(FALSE, "none")
            /\ UNCHANGED <<halt_calls, admin_shutdown, cv_signalled>>
       ELSE /\ admin_halt_called
            /\ Reply(TRUE, "none")
    /\ UNCHANGED <<grace_reads, grace_starts, gid_clears, ng_clears, in_grace>>
    /\ UNCHANGED <<admin_control_mtx, adm_pc, halt_pc>>
    /\ UNCHANGED <<mdcVars, shutdownVars, stackVars, direntVars, fsalVars,
                   cmpVars>>

\* Lines 222-243: purge_gids.
admin_dbus_purge_gids(args) ==
    /\ Received("purge_gids", args)
    /\ IF args.type # "NULL"
       THEN /\ Reply(FALSE, "none")
            /\ UNCHANGED gid_clears
       ELSE /\ gid_clears' = gid_clears + 1
            /\ Reply(TRUE, "none")
    /\ UNCHANGED <<halt_calls, grace_reads, grace_starts, ng_clears, in_grace>>
    /\ UNCHANGED <<mdcVars, adminVars, shutdownVars, stackVars, direntVars,
                   fsalVars, cmpVars>>

\* Lines 258-279: purge_netgroups.
admin_dbus_purge_netgroups(args) ==
    /\ Received("purge_netgroups", args)
    /\ IF args.type # "NULL"
       THEN /\ Reply(FALSE, "none")
            /\ UNCHANGED ng_clears
       ELSE /\ ng_clears' = ng_clears + 1
            /\ Reply(TRUE, "none")
    /\ UNCHANGED <<halt_calls, grace_reads, grace_starts, gid_clears, in_grace>>
    /\ UNCHANGED <<mdcVars, adminVars, shutdownVars, stackVars, direntVars,
                   fsalVars, cmpVars>>

\* The methods, and the admin thread waiting for the shutdown flag.
DbusNext ==
    \/ \E args \in DbusArgs :
          \/ admin_dbus_get_grace(args)
          \/ admin_dbus_grace(args)
          \/ admin_dbus_shutdown(args)
          \/ admin_dbus_purge_gids(args)
          \/ admin_dbus_purge_netgroups(args)
    \/ admin_thread_lock
    \/ admin_thread_check
    \/ admin_thread_wake
    \/ admin_thread_wake_spurious
    \/ admin_thread_unlock

SpecDbus == ShutdownInit /\ [][DbusNext]_vars

----------------------------------------------------------------------------
\* Part 5: the dirent index of a directory (mdcache_avl.h; design document
\* 4.1).  The tree is ordered by the hash key k of its nodes
\* (avl_dirent_hk_cmpf); the j-th probe of a name with hash k is the key
\* k + j + j^2.  mdcache_avl_qp_insert probes up to its own bound;
\* mdcache_avl_qp_lookup_s probes up to the bound maxj its caller passes.

\* The probe bound of insert and the size of the key space.
MaxJ == 3
KeyMod == 16

\* Names: 1..MaxJ hash to the same key; 0 hashes to their second probe.
Names == 0..MaxJ
Probe(k, j) == (k + j + j * j) % KeyMod
Hash(n) == IF n = 0 THEN Probe(1, 1) ELSE 1

\* The bounds the callers of mdcache_avl_qp_lookup_s pass.
LookupBounds == 1..MaxJ

\* Mutant of avl_dirent_hk_cmpf: the sign of the wrapping difference of the
\* keys, read as a signed integer of the keys' width.
avl_dirent_hk_cmpf_wrapping_sub(lhs, rhs) ==
    LET diff == (lhs.k - rhs.k) % KeyMod
    IN IF diff = 0 THEN 0
       ELSE IF 2 * diff >= KeyMod THEN -1
       ELSE 1

\* Mutant of avl_dirent_hk_cmpf: the greater case is missing.
avl_dirent_hk_cmpf_no_greater(lhs, rhs) ==
    IF lhs.k < rhs.k THEN -1 ELSE 0

\* Lines 59-74: nodes compare by their key hk.k.
avl_dirent_hk_cmpf(lhs, rhs) ==
    IF lhs.k < rhs.k THEN -1
    ELSE IF lhs.k = rhs.k THEN 0
    ELSE 1

\* avltree_lookup: the nodes of t that compare equal to key k.
NodeAt(t, k) == {v \in t : avl_dirent_hk_cmpf(v, [k |-> k]) = 0}

\* The live dirents of a name.
Live(t, n) == {v \in t : v.name = n /\ ~v.deleted}

\* A probe position insert can use for n: no node there, or the tombstone
\* of n itself.
Usable(t, n, j) ==
    \A v \in NodeAt(t, Probe(Hash(n), j)) : v.name = n /\ v.deleted

\* The positions below bound at which lookup finds the live dirent of n.
Hits(t, n, bound) ==
    {j \in 0..(bound - 1) :
        \E v \in NodeAt(t, Probe(Hash(n), j)) : v.name = n /\ ~v.deleted}

Min(S) == CHOOSE j \in S : \A i \in S : j <= i

\* Mutant of mdcache_avl_qp_insert: when every probe position is taken the
\* node at the last one is replaced.
mdcache_avl_qp_insert_replace(n) ==
    /\ Live(tree, n) = {}
    /\ LET free == {j \in 0..(MaxJ - 1) : Usable(tree, n, j)}
           j == IF free = {} THEN MaxJ - 1 ELSE Min(free)
           k == Probe(Hash(n), j)
           v == [k |-> k, name |-> n, deleted |-> FALSE]
       IN /\ tree' = (tree \ NodeAt(tree, k)) \cup {v}
          /\ av_result' = [op |-> "insert", name |-> n, maxj |-> MaxJ,
                           status |-> "OK", found |-> {v},
                           before |-> tree]
          /\ UNCHANGED reindex
    /\ UNCHANGED <<mdcVars, adminVars, shutdownVars, stackVars, dbusVars,
                   fsalVars, cmpVars>>

\* insert(dir, name): the first usable probe position below the bound gets
\* the dirent; with none, TOO_MANY_COLLISIONS: the index stays as it is and
\* the directory is marked for reindex.
mdcache_avl_qp_insert(n) ==
    /\ Live(tree, n) = {}
    /\ LET free == {j \in 0..(MaxJ - 1) : Usable(tree, n, j)}
       IN IF free # {}
          THEN LET k == Probe(Hash(n), Min(free))
                   v == [k |-> k, name |-> n, deleted |-> FALSE]
               IN /\ tree' = (tree \ NodeAt(tree, k)) \cup {v}
                  /\ av_result' = [op |-> "insert", name |-> n,
                                   maxj |-> MaxJ, status |-> "OK",
                                   found |-> {v}, before |-> tree]
                  /\ UNCHANGED reindex
          ELSE /\ av_result' = [op |-> "insert", name |-> n, maxj |-> MaxJ,
                                status |-> "TOO_MANY_COLLISIONS",
                                found |-> {}, before |-> tree]
               /\ reindex' = TRUE
               /\ UNCHANGED tree
    /\ UNCHANGED <<mdcVars, adminVars, shutdownVars, stackVars, dbusVars,
                   fsalVars, cmpVars>>

\* lookup_by_name(dir, name) with the caller's bound: the live dirent of
\* that name at the first probe position below maxj that holds it.
mdcache_avl_qp_lookup_s(n, maxj) ==
    /\ LET hits == Hits(tree, n, maxj)
           found == IF hits = {} THEN {}
                    ELSE {v \in NodeAt(tree, Probe(Hash(n), Min(hits))) :
                             v.name = n /\ ~v.deleted}
       IN av_result' = [op |-> "lookup", name |-> n, maxj |-> maxj,
                        status |-> IF found = {} THEN "NOENT" ELSE "OK",
                        found |-> found, before |-> {}]
    /\ UNCHANGED <<tree, reindex>>
    /\ UNCHANGED <<mdcVars, adminVars, shutdownVars, stackVars, dbusVars,
                   fsalVars, cmpVars>>

\* set_deleted(dir, dirent): tombstones the dirent, does not unlink it.
avl_dirent_set_deleted(n) ==
    /\ Live(tree, n) # {}
    /\ tree' = (tree \ Live(tree, n))
                  \cup {[v EXCEPT !.deleted = TRUE] : v \in Live(tree, n)}
    /\ av_result' = [op |-> "set_deleted", name |-> n, maxj |-> 0,
                     status |-> "OK", found |-> {}, before |-> {}]
    /\ UNCHANGED reindex
    /\ UNCHANGED <<mdcVars, adminVars, shutdownVars, stackVars, dbusVars,
                   fsalVars, cmpVars>>

\* clean_tree(dir): unlinks everything; the directory is reindexed from
\* nothing.
mdcache_avl_clean_tree ==
    /\ tree # {}
    /\ tree' = {}
    /\ reindex' = FALSE
    /\ av_result' = [op |-> "clean_tree", name |-> 0, maxj |-> 0,
                     status |-> "OK", found |-> {}, before |-> {}]
    /\ UNCHANGED <<mdcVars, adminVars, shutdownVars, stackVars, dbusVars,
                   fsalVars, cmpVars>>

DirentNext ==
    \/ \E n \in Names :
          \/ mdcache_avl_qp_insert(n)
          \/ avl_dirent_set_deleted(n)
          \/ \E maxj \in LookupBounds : mdcache_avl_qp_lookup_s(n, maxj)
    \/ mdcache_avl_clean_tree

SpecDirent == ShutdownInit /\ [][DirentNext]_vars

----------------------------------------------------------------------------
\* The comparator on its own.  hk.k is an unsigned 64-bit integer; here the
\* keys are the unsigned integers below KeyMod, the same range Probe wraps
\* in, so that the least key 0 and the greatest key KeyMod - 1 are among the
\* inputs.

Keys == 0..(KeyMod - 1)
Dirents == [k : Keys]
Positions == 1..3

\* Three dirents of any keys are handed to the comparator.
CmpInit ==
    /\ export_list = [e \in Entries |-> <<"A", "B">>]
    /\ entry_list = [x \in Exports |-> <<"e1", "e2">>]
    /\ ProgramInit
    /\ cmp_in \in [Positions -> Dirents]
    /\ cmp_out = {}

\* avl_dirent_hk_cmpf is called on every ordered pair of the three dirents.
avltree_compare ==
    /\ cmp_out = {}
    /\ cmp_out' = {[lhs |-> i, rhs |-> j,
                    value |-> avl_dirent_hk_cmpf(cmp_in[i], cmp_in[j])] :
                      i \in Positions, j \in Positions}
    /\ UNCHANGED cmp_in
    /\ UNCHANGED <<mdcVars, adminVars, shutdownVars, stackVars, dbusVars,
                   direntVars, fsalVars>>

CmpNext == avltree_compare

SpecCmp == CmpInit /\ [][CmpNext]_vars

----------------------------------------------------------------------------
\* Positions of mdcache_unexport.

\* Between a successful mdcache_get (line 113) and the mdcache_put of the
\* same iteration (line 152).
HoldsRef(t) ==
    \/ pc[t] = "unlock_rd" /\ status[t] = OK
    \/ pc[t] \in {"wr_attr", "wr_exp", "remove", "unlock_exp_last",
                  "unlock_exp", "unlock_attr_last", "unlock_attr",
                  "try_push", "push_attr", "push_move", "put"}

\* After the removal of line 126 found the export_list empty and before
\* mdcache_lru_cleanup_try_push has finished.
InPushWindow(t) ==
    pc[t] \in {"unlock_exp_last", "unlock_attr_last", "try_push",
               "push_attr", "push_move"}

RECURSIVE SumOver(_, _)
SumOver(f, S) ==
    IF S = {} THEN 0
    ELSE LET x == CHOOSE y \in S : TRUE IN f[x] + SumOver(f, S \ {x})

\* References on e that some thread took and has not yet put back.
Outstanding(e) == SumOver([t \in Threads |-> nref[t][e]], Threads)

----------------------------------------------------------------------------
C2_HeldInOrder ==
    \A t \in Unexporters :
       \A i, j \in 1..Len(held[t]) :
          i < j => Rank(held[t][i]) < Rank(held[t][j])

C2_ReleasedInReverse ==
    \A t \in Unexporters :
       Len(held'[t]) < Len(held[t]) =>
          held'[t] = SubSeq(held[t], 1, Len(held'[t]))

C2_LockOrder == [](C2_HeldInOrder) /\ [][C2_ReleasedInReverse]_vars

\* An unexport holds the entry's attr_lock and, taken after it, the export's
\* mdc_exp_lock, both in write mode.
C2_Witness ==
    \E t \in Unexporters :
       /\ held[t] = <<AttrLock(entry[t]), ExpLock(exp_hdl(t))>>
       /\ attr_lock[entry[t]].w = t
       /\ mdc_exp_lock[exp_hdl(t)].w = t

\* C3: at the call of mdcache_lru_cleanup_try_push(entry) the caller holds
\* neither the entry's attr_lock nor the export's mdc_exp_lock.
C3_NoLockAtTryPush ==
    \A t \in Unexporters :
       pc[t] = "try_push" =>
          /\ attr_lock[entry[t]].w # t
          /\ t \notin attr_lock[entry[t]].r
          /\ mdc_exp_lock[exp_hdl(t)].w # t
          /\ t \notin mdc_exp_lock[exp_hdl(t)].r
          /\ ~Holds(t, AttrLock(entry[t]))
          /\ ~Holds(t, ExpLock(exp_hdl(t)))

\* An unexport is about to call cleanup_try_push on an entry it emptied.
C3_Witness ==
    \E t \in Unexporters :
       pc[t] = "try_push" /\ export_list[entry[t]] = <<>> /\ held[t] = <<>>

\* C4: from the successful mdcache_get to the mdcache_put of an iteration
\* the entry is not freed.
C4_EntryAliveWhileHeld ==
    \A t \in Unexporters : HoldsRef(t) => ~freed[entry[t]]

\* The unexport's reference is the only one on an entry that is already on
\* the cleanup queue: only that reference keeps the reaper from freeing it.
C4_Witness ==
    \E t \in Unexporters :
       /\ pc[t] = "put"
       /\ in_cleanup[entry[t]]
       /\ refcnt[entry[t]] = 1
       /\ lane_lock = NULL
       /\ IsFree(attr_lock[entry[t]])

\* C5: whenever no writer holds an entry's attr_lock, its first_export is
\* NULL exactly when its export_list is empty and otherwise is an export of
\* that list.
C5_FirstExportValid ==
    \A e \in Entries :
       attr_lock[e].w = NULL =>
          /\ (first_export[e] = NULL) <=> (export_list[e] = <<>>)
          /\ first_export[e] # NULL =>
                first_export[e] \in Range(export_list[e])

\* unexport(A) delisted an entry shared with B and has released attr_lock.
C5_Witness ==
    /\ pc["uA"] = "put"
    /\ pc["uB"] = "idle"
    /\ export_list[entry["uA"]] = <<"B">>
    /\ first_export[entry["uA"]] = "B"
    /\ attr_lock[entry["uA"]].w = NULL

\* C6 as stated: mdcache_lru_cleanup_try_push is called exactly when the
\* removal emptied the entry's export_list, and at the call the list is
\* still empty.
C6_StillEmptyAtTryPush ==
    \A t \in Unexporters :
       /\ pc[t] = "try_push" => export_list[entry[t]] = <<>>
       /\ pc[t] \in {"unlock_exp", "unlock_attr"} =>
             export_list[entry[t]] # <<>>

\* C6 as amended: the branch that leads to cleanup_try_push is taken exactly
\* when the removal emptied the entry's export_list, the list stays as the
\* removal left it until attr_lock is released, and cleanup_try_push is
\* called right after that release and on no other path.  (Between the
\* release and the call another thread may attach the entry again.)
C6_BranchMatchesList ==
    \A t \in Unexporters :
       /\ pc[t] \in {"unlock_exp_last", "unlock_attr_last"} =>
             export_list[entry[t]] = <<>> /\ expmap[t] = NO_MAP
       /\ pc[t] \in {"unlock_exp", "unlock_attr"} =>
             export_list[entry[t]] # <<>> /\ expmap[t] # NO_MAP

C6_PushOnlyAfterEmptied ==
    \A t \in Unexporters :
       /\ (pc'[t] = "try_push" /\ pc[t] # "try_push") =>
             pc[t] = "unlock_attr_last" /\ export_list'[entry'[t]] = <<>>
       /\ (pc[t] = "unlock_attr_last" /\ pc'[t] # pc[t]) =>
             pc'[t] = "try_push"
       /\ (pc[t] = "unlock_attr" /\ pc'[t] # pc[t]) => pc'[t] = "put"
       /\ (pc'[t] = "put" /\ pc[t] # "put") =>
             pc[t] \in {"unlock_attr", "push_move"}

C6_PushIffEmptiedUnderLock ==
    [](C6_BranchMatchesList) /\ [][C6_PushOnlyAfterEmptied]_vars

\* An unexport is about to call cleanup_try_push on an entry that a worker
\* has meanwhile attached to the other export.
C6_Witness ==
    \E t \in Unexporters :
       /\ pc[t] = "try_push"
       /\ export_list[entry[t]] # <<>>
       /\ first_export[entry[t]] # NULL

\* C7 as stated: an entry can be returned by a lookup exactly when it has
\* an export association and is not marked unreachable.
C7_ReachableIffAssociated ==
    \A e \in Entries :
       ReachableByLookup(e) <=> (export_list[e] # <<>> /\ ~unreachable[e])

\* C7 as amended: an entry with an export association and unreachable clear
\* can be returned by a lookup; an entry that can be returned by a lookup
\* has unreachable clear, and has no export association only while the
\* unexport that removed its last one has not finished cleanup_try_push.
C7_ReachableUnlessInPushWindow ==
    \A e \in Entries :
       /\ (export_list[e] # <<>> /\ ~unreachable[e]) => ReachableByLookup(e)
       /\ ReachableByLookup(e) => ~unreachable[e]
       /\ (ReachableByLookup(e) /\ export_list[e] = <<>>) =>
             \E t \in Unexporters : entry[t] = e /\ InPushWindow(t)

\* An entry without export association can still be returned by a lookup:
\* its last association was removed and cleanup_try_push has not run yet.
C7_Witness ==
    \E t \in Unexporters :
       /\ pc[t] = "try_push"
       /\ export_list[entry[t]] = <<>>
       /\ ReachableByLookup(entry[t])

\* C8: an entry's reference count is at least the number of gets not yet
\* matched by a put; a thread running mdcache_unexport holds exactly one
\* reference, on its entry, from a successful mdcache_get to the mdcache_put
\* of the iteration, and none otherwise (none after a stale get, none at the
\* loop head, none after it returned).
C8_RefcountBalanced ==
    /\ \A e \in Entries : refcnt[e] >= Outstanding(e)
    /\ \A t \in Unexporters : \A e \in Entries :
          nref[t][e] = IF HoldsRef(t) /\ entry[t] = e THEN 1 ELSE 0

\* An unexport skipped a stale entry (no reference, back at the loop head)
\* while a worker still holds a reference on that entry.
C8_Witness ==
    \E t \in Unexporters, e \in Entries :
       /\ pc[t] = "rdlock"
       /\ entry_list[exp_hdl(t)] # <<>>
       /\ Head(entry_list[exp_hdl(t)]) = e
       /\ unreachable[e]
       /\ refcnt[e] = 1
       /\ \E w \in Workers : nref[w][e] = 1

----------------------------------------------------------------------------
\* The shutdown stages claims C9 and C10 name, in the order of do_shutdown.
ShutdownOrder ==
    <<"delayed_shutdown", "state_async_shutdown", "nfs_rpc_dispatch_stop",
      "fridgethr_sync_command", "worker_shutdown", "remove_all_exports">>

FsalTeardown == {"destroy_fsals", "emergency_cleanup_fsals"}

IsNamedStage(f) == f \in Range(ShutdownOrder) \cup FsalTeardown

\* Position of the first call of f in calls (0: not called).
CallIndex(f) ==
    IF f \in Range(calls)
    THEN CHOOSE i \in 1..Len(calls) :
            calls[i] = f /\ \A j \in 1..(i - 1) : calls[j] # f
    ELSE 0

\* C9: the stages run in the order delayed executor, asynchronous state
\* requests, request listeners, request decoders, worker pool, exports, FSAL
\* teardown, none skipped, none repeated, the teardown (one of the two) last.
C9_StagesInOrder ==
    LET st == SelectSeq(calls, IsNamedStage) IN
       /\ Len(st) <= Len(ShutdownOrder) + 1
       /\ \A i \in 1..Len(st) :
             IF i <= Len(ShutdownOrder) THEN st[i] = ShutdownOrder[i]
             ELSE st[i] \in FsalTeardown

\* A shutdown has run to its end, with every stage called.
C9_Witness ==
    /\ adm_pc = "exit"
    /\ CallIndex("worker_shutdown") > 0
    /\ CallIndex("worker_shutdown") < CallIndex("remove_all_exports")
    /\ CallIndex("remove_all_exports") < CallIndex("destroy_fsals")

\* C10 as stated: no request is accepted once delayed_shutdown has been
\* called.
C10_NoAcceptAfterDelayedShutdown ==
    [][CallIndex("delayed_shutdown") > 0 => accepted' = accepted]_vars

\* C10 as amended: the listeners are stopped (nfs_rpc_dispatch_stop) only
\* after delayed_shutdown and state_async_shutdown have returned, and no
\* request is accepted once nfs_rpc_dispatch_stop has been called; until
\* then requests are still accepted.
C10_ListenersStopAfterExecutor ==
    CallIndex("nfs_rpc_dispatch_stop") > 0 =>
       /\ 0 < CallIndex("delayed_shutdown")
       /\ CallIndex("delayed_shutdown") < CallIndex("state_async_shutdown")
       /\ CallIndex("state_async_shutdown")
             < CallIndex("nfs_rpc_dispatch_stop")
       /\ ~delayed_running

C10_NoAcceptAfterDispatchStop ==
    CallIndex("nfs_rpc_dispatch_stop") > 0 => accepted' = accepted

C10_ListenersStoppedLater ==
    /\ [](C10_ListenersStopAfterExecutor)
    /\ [](listeners_running <=> CallIndex("nfs_rpc_dispatch_stop") = 0)
    /\ [][C10_NoAcceptAfterDispatchStop]_vars

\* The listeners have been stopped after they accepted a request while the
\* delayed executor was already down.
C10_Witness ==
    /\ adm_pc = "Clean_RPC"
    /\ ~listeners_running
    /\ ~delayed_running
    /\ accepted > 0

----------------------------------------------------------------------------
\* The outcome of a shutdown.

\* How often do_shutdown has called f.
Count(f) == Cardinality({i \in 1..Len(calls) : calls[i] = f})

\* Some stage reported an error or timed out.
StageFailed == \E p \in returned : p[2] # 0

\* do_shutdown is past the choice of lines 435-448.
PastFsals == adm_pc \in {"unlink", "exit"}

\* C11: a shutdown runs exactly one of destroy_fsals and
\* emergency_cleanup_fsals, exactly once: destroy_fsals when no stage
\* reported an error, emergency_cleanup_fsals when some stage reported an
\* error or timed out; never the other one.
C11_ExactlyOneFinalAction ==
    /\ Count("destroy_fsals") + Count("emergency_cleanup_fsals")
          = (IF PastFsals THEN 1 ELSE 0)
    /\ Count("destroy_fsals") = 1 => ~StageFailed
    /\ Count("emergency_cleanup_fsals") = 1 => StageFailed

\* A shutdown in which only the last stage that reports a code failed has
\* ended with the emergency cleanup.
C11_Witness ==
    /\ adm_pc = "exit"
    /\ {p \in returned : p[2] # 0} = {<<"reaper_shutdown", 1>>}
    /\ Count("emergency_cleanup_fsals") = 1

----------------------------------------------------------------------------
\* The request decoder stage (lines 382-397).

Decoders == "fridgethr_sync_command"

\* What holds of the stage's outcome in every state.
C12_DecoderOutcome ==
    /\ ("fridgethr_cancel" \in Range(calls))
          <=> (<<Decoders, ETIMEDOUT>> \in returned)
    /\ Count("fridgethr_cancel") <= 1
    /\ (\E p \in returned : p[1] = Decoders /\ p[2] # 0) => disorderly
    /\ (<<Decoders, ETIMEDOUT>> \in returned /\ PastFsals)
          => /\ Count("emergency_cleanup_fsals") = 1
             /\ Count("destroy_fsals") = 0

\* What the stage does when the stop returns 0.
C12_DecoderStopOk ==
    (adm_pc = Decoders /\ adm_pc' # Decoders /\ rc' = 0)
       => /\ disorderly' = disorderly
          /\ "fridgethr_cancel" \notin Range(calls')

\* C12: when stopping the request decoder threads times out the threads are
\* cancelled, the shutdown is disorderly and ends with the emergency
\* cleanup; on another non-zero code the shutdown is disorderly and no
\* thread is cancelled; on 0 the stage neither cancels nor sets disorderly.
C12_DecoderTimeoutCancels ==
    [](C12_DecoderOutcome) /\ [][C12_DecoderStopOk]_vars

\* A shutdown whose only failure is the decoder stage's timeout has ended.
C12_Witness ==
    /\ adm_pc = "exit"
    /\ {p \in returned : p[2] # 0} = {<<Decoders, ETIMEDOUT>>}
    /\ "fridgethr_cancel" \in Range(calls)
    /\ Count("emergency_cleanup_fsals") = 1

----------------------------------------------------------------------------
\* Termination of the shutdown.

\* C13: once admin_halt has set the shutdown flag, do_shutdown reaches its
\* end, whatever a request worker does, also when the worker stops for ever
\* while it holds an entry's attr_lock or an export's lock.
C13_ShutdownTerminates == admin_shutdown ~> (adm_pc = "exit")

----------------------------------------------------------------------------
\* The forwarding operations of the MDCACHE export.

\* A forwarding operation has returned to its caller.
Forwarded == st_pc = "idle" /\ result.op \in PassThroughOps

\* C14 as stated: every forwarding operation calls the same operation of
\* the sub-export exactly once with the arguments it was called with and
\* returns what the sub-export returned.
C14_SameArguments ==
    Forwarded =>
       /\ Len(sub_calls) = 1
       /\ sub_calls[1].op = result.op
       /\ sub_calls[1].export = SUB(result.exp)
       /\ sub_calls[1].args = cur.args
       /\ result.value = sub_result

\* The call made to the sub-export: once, the same operation, the caller's
\* arguments with, for get_fs_dynamic_info, the sub-FSAL handle of the
\* entry in place of the object handle.
C14_ForwardedOnce ==
    Forwarded =>
       /\ Len(sub_calls) = 1
       /\ sub_calls[1].op = result.op
       /\ sub_calls[1].export = SUB(result.exp)
       /\ IF result.op = "get_fs_dynamic_info"
          THEN /\ sub_calls[1].args[1] = sub_handle(cur.args[1])
               /\ sub_calls[1].args[2] = cur.args[2]
               /\ Len(sub_calls[1].args) = 2
          ELSE sub_calls[1].args = cur.args
       /\ result.value = sub_result

\* No step of a forwarding operation changes the cache.
C14_CacheUntouched ==
    (st_pc # "idle" \/ st_pc' # "idle") /\ cur'.op \in PassThroughOps
       => UNCHANGED mdcVars

\* C14: every forwarding operation calls the same operation of the
\* sub-export exactly once, with its own arguments (get_fs_dynamic_info
\* with the entry's sub-FSAL handle for the object handle), returns the
\* sub-export's result unchanged, and leaves the cache state alone.
C14_ForwardsUnchanged ==
    [](C14_ForwardedOnce) /\ [][C14_CacheUntouched]_vars

\* get_fs_dynamic_info has returned the second of the sub-export's results.
C14_Witness ==
    /\ Forwarded
    /\ result.op = "get_fs_dynamic_info"
    /\ result.value = "r2"

----------------------------------------------------------------------------
\* The subcall shim.

\* The sub-export's operation ran with the sub-export installed, and the
\* context is the MDCACHE export of before when the operation is about to
\* return.
C15_ContextAtCallAndAfter ==
    /\ \A i \in 1..Len(sub_calls) :
          sub_calls[i].op \in ForwardedOps
             => sub_calls[i].ctx = sub_calls[i].export
    /\ (st_pc = "return")
          => /\ op_ctx.fsal_export = saved_export
             /\ saved_export[1] = "MDC"

\* Returning leaves the context alone.
C15_ReturnKeepsContext == (st_pc = "return") => (op_ctx' = op_ctx)

----------------------------------------------------------------------------
\* mdcache_fsal_create_export.

\* create_export has returned.
Created == st_pc = "idle" /\ cur.op = "create_export"

\* C16: when the config block cannot be loaded or the sub-FSAL is not found
\* create_export returns ERR_FSAL_INVAL and the sub-FSAL's create_export is
\* not called; when the sub-FSAL's create_export fails its status is
\* returned unchanged; in all these cases no MDCACHE export is created and
\* the request context's current export is not replaced.
C16_CreateFailsCleanly ==
    Created =>
       LET load == cur.args[1]
           look == cur.args[2]
           st == cur.args[3]
       IN /\ (load = "load_failed" \/ look = "not_found")
                => /\ result.value = "ERR_FSAL_INVAL"
                   /\ sub_calls = <<>>
                   /\ cur.exp \notin stacked
                   /\ op_ctx.fsal_export = saved_export
          /\ (load = "load_ok" /\ look = "found" /\ FSAL_IS_ERROR(st))
                => /\ result.value = st
                   /\ Len(sub_calls) = 1
                   /\ cur.exp \notin stacked
                   /\ exp_name[cur.exp] = ""
                   /\ op_ctx.fsal_export = saved_export

\* The sub-FSAL's create_export failed for B while A's MDCACHE export is
\* the current export.
C16_Witness ==
    /\ Created
    /\ cur.exp = "B"
    /\ cur.args = <<"load_ok", "found", "ERR_FSAL_NOMEM">>
    /\ op_ctx.fsal_export = MDC("A")
    /\ result.value = "ERR_FSAL_NOMEM"

----------------------------------------------------------------------------
\* mdcache_get_name.

\* C20: get_name on an MDCACHE export handle returns the name of that
\* export's sub-FSAL with "/MDC" appended, whichever export is installed in
\* the request context.
C20_NameOfArgument ==
    (result.op = "get_name")
       => result.value = SubFsalName[result.exp] \o "/MDC"

----------------------------------------------------------------------------
\* The admin methods.

\* The calls of a method received so far, and those of them whose
\* arguments have the shape the method takes.
CallsOf(m) == {i \in 1..Len(dbus_calls) : dbus_calls[i].method = m}
RightShape(call) ==
    IF call.method = "grace" THEN call.args.type = "DBUS_TYPE_STRING"
    ELSE call.args.type = "NULL"
Accepted(m) == {i \in CallsOf(m) : RightShape(dbus_calls[i])}

\* C17: a method called with the wrong argument shape replies failure and
\* does not perform its action (set the shutdown flag, read the grace
\* state, clear the gid cache, clear the netgroup cache, start a grace
\* period); called with the right shape it performs its action exactly once
\* and replies success.
C17_WrongShapeRejected ==
    /\ Len(dbus_replies) = Len(dbus_calls)
    /\ \A i \in 1..Len(dbus_calls) :
          dbus_replies[i].success = RightShape(dbus_calls[i])
    /\ halt_calls = Cardinality(Accepted("shutdown"))
    /\ admin_shutdown = (Accepted("shutdown") # {})
    /\ grace_reads = Cardinality(Accepted("get_grace"))
    /\ \A i \in CallsOf("get_grace") :
          (dbus_replies[i].payload # "none") = RightShape(dbus_calls[i])
    /\ gid_clears = Cardinality(Accepted("purge_gids"))
    /\ ng_clears = Cardinality(Accepted("purge_netgroups"))
    /\ Len(grace_starts) = Cardinality(Accepted("grace"))
    /\ in_grace = (Accepted("grace") # {})

\* A grace call with a non-string argument was refused, one with a string
\* started a grace period, and a shutdown call with an argument was refused.
C17_Witness ==
    /\ Len(dbus_calls) = MaxDbusCalls
    /\ dbus_calls[1].method = "grace"
    /\ dbus_calls[1].args.type = "DBUS_TYPE_INT32"
    /\ dbus_calls[2].method = "grace"
    /\ dbus_calls[2].args.type = "DBUS_TYPE_STRING"
    /\ dbus_calls[3].method = "shutdown"
    /\ dbus_calls[3].args.type = "DBUS_TYPE_STRING"
    /\ ~admin_shutdown
    /\ Len(grace_starts) = 1

----------------------------------------------------------------------------
\* The dirent index.

\* The probe position of a node of name n.
PositionOf(n, v) ==
    CHOOSE j \in 0..(MaxJ - 1) : Probe(Hash(n), j) = v.k

\* The last operation was a name lookup.
LookedUp == av_result.op = "lookup"

Full(t, n) == \A j \in 0..(MaxJ - 1) : ~Usable(t, n, j)

----------------------------------------------------------------------------
\* Termination of mdcache_unexport.

\* C21: mdcache_unexport terminates: under fair scheduling a thread in its
\* loop eventually finds the export's entry_list empty and returns, also
\* when mdcache_get reported the entry at the head of the list stale.
C21_UnexportTerminates ==
    \A t \in Unexporters : (pc[t] = "rdlock") ~> (pc[t] = "done")

----------------------------------------------------------------------------
\* The association record between its reading and its removal.

\* The association record em is linked into both lists.
Linked(em) ==
    /\ em[1] \in Range(entry_list[em[2]])
    /\ em[2] \in Range(export_list[em[1]])

\* From the moment the read lock is dropped until the record is removed,
\* the record a thread read is linked into both lists and its entry is not
\* freed.
C22_LinkedUntilRemoved ==
    \A t \in Unexporters :
       pc[t] \in {"wr_attr", "wr_exp", "remove"}
          => /\ expmap[t] # NO_MAP
             /\ expmap[t] = <<entry[t], exp_hdl(t)>>
             /\ Linked(expmap[t])
             /\ ~freed[entry[t]]

\* The removal finds the record linked into both lists and leaves it in
\* neither.
C22_RemovalUnlinksOnce ==
    \A t \in Unexporters :
       (pc[t] = "remove" /\ pc'[t] # "remove")
          => /\ Linked(expmap[t])
             /\ entry[t] \notin Range(entry_list'[exp_hdl(t)])
             /\ exp_hdl(t) \notin Range(export_list'[entry[t]])
             /\ Len(entry_list'[exp_hdl(t)])
                   = Len(entry_list[exp_hdl(t)]) - 1
             /\ Len(export_list'[entry[t]])
                   = Len(export_list[entry[t]]) - 1

\* C22: the association record mdcache_unexport removes is still linked
\* into the export's entry_list and the entry's export_list when it is
\* removed: no other unexport, reaper or cleanup removed or freed it after
\* the thread read it and dropped the read lock, and no record is removed
\* twice.
C22_RecordRemovedWhileLinked ==
    []C22_LinkedUntilRemoved /\ [][C22_RemovalUnlinksOnce]_vars

\* A thread has removed the last record of an entry whose other record the
\* unexport of the sharing export removed just before.
C22_Witness ==
    \E e \in Entries :
       /\ pc["uA"] = "unlock_exp_last"
       /\ entry["uA"] = e
       /\ entry["uB"] = e
       /\ pc["uB"] = "put"

----------------------------------------------------------------------------
\* What mdcache_unexport leaves alone.

\* The exports of a list other than x, in order.
Others(list, x) == SelectSeq(list, LAMBDA y : y # x)

\* A step of the thread t that runs mdcache_unexport on its export X: the
\* lists of the other exports and every entry's associations to them stay as
\* they are; the one record that goes is that of the thread's entry and X;
\* only an entry without any association is queued for cleanup or made
\* unreachable, and the call that may do so is made only when the removal
\* took the entry's last record.
C23_StepChangesOnlyOwn(t) ==
    (pc'[t] # pc[t]) =>
       /\ \A y \in Exports \ {exp_hdl(t)} : entry_list'[y] = entry_list[y]
       /\ \A e \in Entries :
             /\ Others(export_list'[e], exp_hdl(t))
                   = Others(export_list[e], exp_hdl(t))
             /\ export_list'[e] # export_list[e]
                   => /\ e = entry[t]
                      /\ pc[t] = "remove"
                      /\ export_list'[e] = Remove(export_list[e], exp_hdl(t))
             /\ (in_cleanup'[e] /\ ~in_cleanup[e])
                   => e = entry[t] /\ export_list[e] = <<>>
             /\ unreachable'[e] # unreachable[e]
                   => e = entry[t] /\ export_list[e] = <<>>
             /\ (export_list'[e] # <<>> /\ ReachableByLookup(e))
                   => ReachableByLookup(e)'
             /\ freed'[e] = freed[e]
       /\ (pc'[t] = "try_push") => (pc[t] = "unlock_attr_last"
                                      /\ expmap[t] = NO_MAP)

\* C23: mdcache_unexport(X) changes only associations to X: an entry shared
\* with other exports keeps its associations to them, is not pushed to the
\* cleanup queue and stays reachable through them; an entry is pushed to
\* cleanup only if X was its last association.
C23_UnexportChangesOnlyOwn ==
    [][\A t \in Unexporters : C23_StepChangesOnlyOwn(t)]_vars

\* mdcache_unexport(A) has just removed the record of an entry that B also
\* exports: the entry is still B's, not queued, and a lookup returns it.
C23_Witness ==
    /\ pc["uA"] = "unlock_exp"
    /\ pc["uB"] = "idle"
    /\ export_list[entry["uA"]] = <<"B">>
    /\ entry["uA"] \in Range(entry_list["B"])
    /\ ~in_cleanup[entry["uA"]]
    /\ ReachableByLookup(entry["uA"])

----------------------------------------------------------------------------
\* The two directions of the export map.

\* Both lists hold the same association records, each at most once.
C24_SameRecordsBothWays ==
    /\ \A e \in Entries, x \in Exports :
          (x \in Range(export_list[e])) <=> (e \in Range(entry_list[x]))
    /\ \A e \in Entries : NoDup(export_list[e])
    /\ \A x \in Exports : NoDup(entry_list[x])

\* mdc_remove_export_map is called with the entry's attr_lock and the
\* export's lock both held for writing.
C24_RemovalUnderBothLocks ==
    \A t \in Unexporters :
       pc[t] = "remove"
          => /\ attr_lock[entry[t]].w = t
             /\ mdc_exp_lock[exp_hdl(t)].w = t

\* C24: in every reachable state an association record (entry e, export X)
\* is in e's export_list exactly when it is in X's entry_list, and there is
\* at most one record per pair; mdcache_unexport unlinks a record from both
\* lists in one step, holding both locks.
C24_ExportMapConsistent ==
    C24_SameRecordsBothWays /\ C24_RemovalUnderBothLocks

\* A thread has just unlinked a record and still holds both locks: the
\* record is in neither list.
C24_Witness ==
    \E t \in Unexporters :
       /\ pc[t] \in {"unlock_exp", "unlock_exp_last"}
       /\ attr_lock[entry[t]].w = t
       /\ mdc_exp_lock[exp_hdl(t)].w = t
       /\ entry[t] \notin Range(entry_list[exp_hdl(t)])
       /\ exp_hdl(t) \notin Range(export_list[entry[t]])
       /\ sub_unexported[exp_hdl(t)] = 1

----------------------------------------------------------------------------
\* Deadlock.

\* The thread asks for no lock.
NoLock == [k |-> "none", o |-> NULL]

\* The lock a thread asks for at its position.
Wanted(t) ==
    CASE pc[t] \in {"rdlock", "wr_exp"} -> ExpLock(exp_hdl(t))
      [] pc[t] \in {"wr_attr", "push_attr", "check_mapping"}
            -> AttrLock(entry[t])
      [] pc[t] = "map_exp" -> ExpLock(op_export[t])
      [] pc[t] \in {"try_push", "put_lane"} -> LaneMutex
      [] OTHER -> NoLock

\* A thread is inside a call and none of its steps can be taken.
Blocked(t) ==
    /\ pc[t] \notin {"idle", "done"}
    /\ \/ t \in Unexporters /\ ~ENABLED UnexporterSteps(t)
       \/ t \in Workers /\ ~ENABLED RequestSteps(t)

\* The threads that hold the lock a thread asks for.
Blockers(t) == {u \in Threads : Holds(u, Wanted(t))}

\* Every thread of D is blocked on a lock held only by threads of D.
Deadlocked(D) ==
    /\ D # {}
    /\ \A t \in D : Blocked(t) /\ Blockers(t) \subseteq D

\* C25: no deadlock is reachable when mdcache_unexport runs beside another
\* mdcache_unexport on an export sharing entries with it, requests that take
\* entry and export locks in the global order, and the cleanup path that
\* takes the LRU lane lock before attr_lock: no set of threads waits for
\* locks held only inside the set, and a blocked thread always waits for a
\* lock another thread holds.
C25_NoDeadlock ==
    /\ \A D \in SUBSET Threads : ~Deadlocked(D)
    /\ \A t \in Threads : Blocked(t) => Blockers(t) \ {t} # {}

\* Both unexports and the worker are at work on shared entries; one unexport
\* waits for the attr_lock the other holds, and the holder can go on.
C25_Witness ==
    /\ Blocked("uA")
    /\ pc["uA"] = "wr_attr"
    /\ "uB" \in Blockers("uA")
    /\ ~Blocked("uB")
    /\ pc["w1"] \notin {"idle", "done"}

----------------------------------------------------------------------------
\* The sub-FSAL's unexport.

\* The sub-export's unexport has been called once by a thread that is past
\* lines 94-97, and not at all before.
C26_CalledOnceAtEntry ==
    \A t \in Unexporters :
       sub_unexported[exp_hdl(t)] = IF pc[t] = "idle" THEN 0 ELSE 1

\* The removal of a record runs after the call, and the call is made by the
\* first step of mdcache_unexport and by no other.
C26_CallBeforeRemoval ==
    \A t \in Unexporters :
       /\ (pc[t] = "remove" /\ pc'[t] # "remove")
             => sub_unexported[exp_hdl(t)] = 1
       /\ sub_unexported'[exp_hdl(t)] # sub_unexported[exp_hdl(t)]
             => pc[t] = "idle" /\ pc'[t] = "rdlock"
                   /\ entry_list' = entry_list
                   /\ export_list' = export_list

\* C26: mdcache_unexport calls the sub-export's unexport exactly once, and
\* before it removes any association: none of the export's records is
\* removed by it before that call has returned.
C26_SubUnexportFirstOnce ==
    []C26_CalledOnceAtEntry /\ [][C26_CallBeforeRemoval]_vars

\* mdcache_unexport(B) has just removed a record; the sub-export's unexport
\* was called once for B and not for A.
C26_Witness ==
    /\ pc["uB"] \in {"unlock_exp", "unlock_exp_last"}
    /\ entry["uB"] \notin Range(entry_list["B"])
    /\ sub_unexported["B"] = 1
    /\ sub_unexported["A"] = 0

----------------------------------------------------------------------------
\* admin_halt and the admin thread.

\* The admin thread is in do_shutdown or past it.
InDoShutdown == adm_pc \notin {"start", "check", "wait", "unlock"}

\* C27: once admin_halt has been called the admin thread eventually runs
\* do_shutdown, whether the call comes before the admin thread waits, while
\* it waits, or from several threads at once.
C27_HaltLeadsToShutdown ==
    \A h \in Halters : (halt_pc[h] # "idle") ~> InDoShutdown

\* Both callers of admin_halt have returned and the admin thread is at the
\* first statement of do_shutdown.
C27_Witness ==
    /\ \A h \in Halters : halt_pc[h] = "done"
    /\ adm_pc = "delayed_shutdown"
    /\ calls = <<>>
    /\ accepted = MaxRequests

\* do_shutdown runs only with the flag set by a call of admin_halt, and its
\* first stage has been called at most once.
C28_OnlyAfterHalt ==
    /\ (InDoShutdown \/ adm_pc = "unlock")
          => /\ admin_shutdown
             /\ \E h \in Halters : halt_pc[h] \in {"unlock", "done"}
    /\ admin_shutdown => \E h \in Halters : halt_pc[h] \in {"unlock", "done"}
    /\ Count("delayed_shutdown") <= 1
    /\ InDoShutdown <=> \/ adm_pc = "delayed_shutdown"
                       \/ Count("delayed_shutdown") = 1

\* The flag stays set, do_shutdown is not left for the wait, and it is
\* entered from the test of the flag only.
C28_NeverBack ==
    /\ admin_shutdown => admin_shutdown'
    /\ InDoShutdown => InDoShutdown'
    /\ (InDoShutdown' /\ ~InDoShutdown) => (adm_pc = "unlock" /\ admin_shutdown)
    /\ (adm_pc' = "unlock" /\ adm_pc # "unlock")
          => (adm_pc = "check" /\ admin_shutdown)

\* C28: do_shutdown runs at most once and never before admin_halt has been
\* called: a spurious wakeup of the wait does not start it, repeated or
\* concurrent calls of admin_halt start one shutdown, and admin_shutdown
\* never returns to false.
C28_ShutdownOnceAfterHalt ==
    []C28_OnlyAfterHalt /\ [][C28_NeverBack]_vars

\* The shutdown has run to its end once, after both callers of admin_halt
\* returned.
C28_Witness ==
    /\ adm_pc = "exit"
    /\ Count("delayed_shutdown") = 1
    /\ Count("unlink") = 1
    /\ \A h \in Halters : halt_pc[h] = "done"
    /\ admin_shutdown

----------------------------------------------------------------------------
\* The disorderly flag.

\* The stages whose return code do_shutdown tests.
RcStages ==
    {"state_async_shutdown", "fridgethr_sync_command", "worker_shutdown",
     "general_fridge_shutdown", "reaper_shutdown"}

\* The calls do_shutdown makes in every run, up to remove_all_exports.
EveryStage ==
    <<"delayed_shutdown", "state_async_shutdown", "nfs_rpc_dispatch_stop",
      "Clean_RPC", "fridgethr_sync_command", "worker_shutdown",
      "svc_shutdown", "general_fridge_shutdown", "reaper_shutdown",
      "remove_all_exports">>

\* In do_shutdown disorderly says whether a stage so far returned non-zero;
\* when the FSALs are torn down every stage has been called once, each of
\* the five tested ones has returned, whatever the others returned.
C29_DisorderlyIffStageFailed ==
    InDoShutdown =>
       /\ disorderly <=> \E p \in returned : p[1] \in RcStages /\ p[2] # 0
       /\ \A p \in returned : p[1] \in RcStages
       /\ adm_pc \in {"fsals", "unlink", "exit"} =>
             /\ SelectSeq(calls, LAMBDA f : f \in Range(EveryStage))
                   = EveryStage
             /\ {p[1] : p \in returned} = RcStages

\* Once set in do_shutdown, disorderly stays set.
C29_DisorderlyStays ==
    (InDoShutdown /\ disorderly) => disorderly'

\* C29: during do_shutdown the disorderly flag is monotonic, and at the
\* final stage it is true exactly when state_async_shutdown, the
\* request-fridge stop, worker_shutdown, general_fridge_shutdown or
\* reaper_shutdown returned non-zero; a failing stage skips no later stage:
\* every stage, remove_all_exports included, is called in every shutdown.
C29_DisorderlyMonotonicAndExact ==
    []C29_DisorderlyIffStageFailed /\ [][C29_DisorderlyStays]_vars

\* A shutdown in which the first tested stage failed and the four others
\* returned 0 has called remove_all_exports and is disorderly.
C29_Witness ==
    /\ adm_pc = "fsals"
    /\ returned = {<<"state_async_shutdown", 1>>,
                   <<"fridgethr_sync_command", 0>>,
                   <<"worker_shutdown", 0>>,
                   <<"general_fridge_shutdown", 0>>,
                   <<"reaper_shutdown", 0>>}
    /\ disorderly
    /\ Count("remove_all_exports") = 1

----------------------------------------------------------------------------
\* References on the sub-FSAL modules.

\* The MDCACHE exports stacked on module f.
ExportsOn(f) == {x \in stacked : FsalOf(x) = f}

\* C30: the sub-FSAL module's reference count is balanced over the life of
\* an export: a successful mdcache_fsal_create_export leaves exactly one
\* reference held for the MDCACHE export, mdcache_exp_release drops exactly
\* that one, and a create_export that fails at any step leaves the count as
\* it was: the count is the number of MDCACHE exports on the module.
C30_FsalRefsBalanced ==
    \A f \in FsalNames : fsal_refcount[f] = Cardinality(ExportsOn(f))

\* The sub-FSAL's create_export has just failed for export A while export B
\* exists: no reference is left on A's module and one on B's.
C30_Witness ==
    /\ cur = [op |-> "create_export", exp |-> "A",
              args |-> <<"load_ok", "found", "ERR_FSAL_NOMEM">>]
    /\ result.value = "ERR_FSAL_NOMEM"
    /\ stacked = {"B"}
    /\ fsal_refcount = [f \in FsalNames |->
                           IF f = FsalOf("B") THEN 1 ELSE 0]

----------------------------------------------------------------------------
\* The dirent comparator.

\* The comparator has returned on the three dirents.
Compared == cmp_out # {}

\* What it returned for the dirents at positions i and j.
Cmp(i, j) == (CHOOSE r \in cmp_out : r.lhs = i /\ r.rhs = j).value

\* It returns 0 exactly when the keys are equal.
C31_ZeroIffEqualKeys ==
    \A i, j \in Positions : (Cmp(i, j) = 0) <=> (cmp_in[i].k = cmp_in[j].k)

\* cmp(a, b) = -cmp(b, a).
C31_Antisymmetric ==
    \A i, j \in Positions : Cmp(i, j) = 0 - Cmp(j, i)

\* a <= b and b <= c give a <= c, and a < b and b < c give a < c.
C31_Transitive ==
    \A i, j, l \in Positions :
       /\ (Cmp(i, j) <= 0 /\ Cmp(j, l) <= 0) => Cmp(i, l) <= 0
       /\ (Cmp(i, j) < 0 /\ Cmp(j, l) < 0) => Cmp(i, l) < 0

\* C31: avl_dirent_hk_cmpf is a total order on the unsigned hash keys: for
\* all dirents a, b, c it returns only -1, 0 or 1, 0 exactly when
\* a.k = b.k, cmp(a, b) = -cmp(b, a), and it is transitive, the least key 0
\* and the greatest key included: the result is the order of the keys as
\* unsigned integers, not the sign of a wrapping difference.
C31_CmpTotalOrder ==
    Compared =>
       /\ \A r \in cmp_out : r.value \in {-1, 0, 1}
       /\ C31_ZeroIffEqualKeys
       /\ C31_Antisymmetric
       /\ C31_Transitive
       /\ \A i, j \in Positions :
             (Cmp(i, j) < 0) <=> (cmp_in[i].k < cmp_in[j].k)

\* The comparator has been called on the greatest key, the least key and
\* the key next to it, and has put the greatest key last.
C31_Witness ==
    /\ Compared
    /\ cmp_in[1].k = KeyMod - 1
    /\ cmp_in[2].k = 0
    /\ cmp_in[3].k = 1
    /\ Cmp(1, 2) = 1
    /\ Cmp(2, 3) = -1
    /\ Cmp(1, 3) = 1

====
